---------------------------- MODULE Spec2Model ----------------------------
(***************************************************************************)
(* A model of spinnaker/buildtool's release tooling:                       *)
(*                                                                         *)
(*   - RepositoryCommandProcessor's repository filter                      *)
(*     (dev/buildtool/repository_command.py),                              *)
(*   - one invocation of a repository command, instrumented through the    *)
(*     metrics registry (command.py, repository_command.py,                *)
(*     base_metrics.py),                                                   *)
(*   - VersionsBuilder (versions_commands.py),                             *)
(*   - BomBuilder (bom_commands.py),                                       *)
(*   - ChangelogRepositoryData.partition_commits (changelog_commands.py).  *)
(*                                                                         *)
(* Each part has its own specification over the module's variables; a      *)
(* part that a specification does not exercise stays idle in it.           *)
(***************************************************************************)
EXTENDS Integers, Sequences, FiniteSets, TLC

VARIABLES
    \* ---- RepositoryCommandProcessor construction and filtering
    fpc,                      \* "idle" | "new" | "constructed" | "resolved"
    options,                  \* [only_repositories, exclude_repositories]
    source_repository_names,  \* the factory's source_repository_names kwarg
    scm_repositories,         \* what scm.determine_source_repositories() returns
    source_repositories,      \* self.__source_repositories (None until known)
    got_repositories,         \* what the source_repositories property returned
    \* ---- one invocation of a repository command: CommandProcessor.__call__
    cpc,                      \* where the calling thread is
    one_at_a_time,            \* options.one_at_a_time
    max_threads_kwarg,        \* the max_threads kwarg (NoArg when not passed)
    scm_max_threads,          \* the max_threads handed to factory.make_scm
    hook,                     \* per repository: what the command's hooks will do
    rpc,                      \* per repository: where its unit of work is
    thread,                   \* per repository: the pool thread running it
    calls,                    \* how often each hook has been called
    task,                     \* per repository: labels and outcome of its task
    first_error,              \* the first error a pool task ended with
    postprocess_dict,         \* what _do_postprocess received
    command_result,           \* what the invocation returned or raised
    metric_families,          \* BaseMetricsRegistry.__metric_families
    gauge_registered,         \* per tracked call: its gauge is in the registry
    \* ---- VersionsBuilder
    vpc,                      \* "idle" | "ready" | "returned"
    base_versions,            \* self.__base_versions_dict
    last_build,               \* the last build call: its arguments and outcome
    \* ---- BomBuilder
    bpc,                      \* "idle" | "ready" | "returned"
    base_bom,                 \* self.__base_bom
    bom_dependencies_file,    \* what the file at __bom_dependencies_path holds
    bom_order,                \* the keys of __services and __repositories, in insertion order
    bom_services,             \* self.__services: service name -> the entry object
    bom_repositories,         \* self.__repositories: service name -> the repository's origin
    bom_objects,              \* the entry objects (mappings) and what each holds
    last_bom,                 \* the last BomBuilder.build call and its outcome
    \* ---- ChangelogRepositoryData
    lpc,                      \* "idle" | "ready" | "returned"
    normalized_messages,      \* self.normalized_messages
    last_partition,           \* the last partition_commits call and its result
    \* ---- TagBranchCommand, on one repository
    tpc,                      \* "idle" | "ready" | "returned"
    git_branch,               \* options.git_branch
    head_commit,              \* the commit at HEAD: the branch is the commits 1..head_commit
    git_tags,                 \* the tags of the local repository, oldest first
    pushed_tags,              \* the tags the command pushed to origin, oldest first
    last_tag_call,            \* the last call looked at and its outcome
    \* ---- An exception on its way from a repository hook to the caller
    epc,                      \* "idle" | "foreach" | "except" | "raised" | "returned"
    raises,                   \* per repository: how its hook ends
    stage,                    \* per repository: where its call is
    exceptions,               \* per repository: the exception object its hook raised
    pool_error,               \* the repository whose exception the pool raises, 0 for none
    command_raised,           \* the repository whose exception __call__ raised, 0 for none
    \* ---- track_and_time_call by concurrent callers on one registry
    mpc,                      \* per caller: where its tracked call is
    call_labels,              \* per caller: the labels of its call
    call_raises,              \* per caller: whether the wrapped function raises
    registry_families,        \* BaseMetricsRegistry.__metric_families
    got_metric,               \* per caller: the family its gauge and its timer are in
    \* ---- The registry's pending updates, its pusher thread and the shutdown
    ppc,                      \* where the main thread is
    monitoring_enabled,       \* options.monitoring_enabled
    pusher_thread,            \* self.__pusher_thread
    pusher_thread_event,      \* self.__pusher_thread_event is set
    loop,                     \* the pusher thread: where flush_every_loop is
    updated_metrics,          \* self.__updated_metrics
    queued,                   \* per metric: how often queue_update was called with it
    drains,                   \* per metric: the value of queued at each flush that took it
    holding,                  \* per flushing thread: the set it took and is processing
    \* ---- PublishSpinnakerCommand.push_branches_and_tags
    which,                    \* the pass the call is in, or how it ended
    service_at,               \* the index of the BOM service the pass is at
    publish_bom,              \* bom["services"]: the names in order, and whether the spec is None
    publish_only,             \* self.__only_repositories
    version_tags,             \* per repository: where its version tag is
    names_to_push,            \* names_to_push
    origin                    \* the branches and the tags pushed to the origins

fvars == <<fpc, options, source_repository_names, scm_repositories,
           source_repositories, got_repositories>>

cvars == <<cpc, one_at_a_time, max_threads_kwarg, scm_max_threads, hook, rpc,
           thread, calls, task, first_error, postprocess_dict, command_result,
           metric_families, gauge_registered>>

vvars == <<vpc, base_versions, last_build>>

bvars == <<bpc, base_bom, bom_dependencies_file, bom_order, bom_services,
           bom_repositories, bom_objects, last_bom>>

lvars == <<lpc, normalized_messages, last_partition>>

tvars == <<tpc, git_branch, head_commit, git_tags, pushed_tags, last_tag_call>>

evars == <<epc, raises, stage, exceptions, pool_error, command_raised>>

mvars == <<mpc, call_labels, call_raises, registry_families, got_metric>>

pvars == <<ppc, monitoring_enabled, pusher_thread, pusher_thread_event,
            loop, updated_metrics, queued, drains, holding>>

qvars == <<which, service_at, publish_bom,
            publish_only, version_tags, names_to_push, origin>>

vars == <<fvars, cvars, vvars, bvars, lvars, tvars, evars, mvars, pvars, qvars>>

\* What the steps of a command invocation, and those of a builder, leave alone.
outside_command == <<vvars, bvars, lvars, tvars, evars, mvars, pvars, qvars>>
outside_versions == <<fvars, cvars, bvars, lvars, tvars, evars, mvars, pvars, qvars>>
outside_bom == <<fvars, cvars, vvars, lvars, tvars, evars, mvars, pvars, qvars>>
outside_changelog == <<fvars, cvars, vvars, bvars, tvars, evars, mvars, pvars, qvars>>
outside_tag == <<fvars, cvars, vvars, bvars, lvars, evars, mvars, pvars, qvars>>
outside_error == <<fvars, cvars, vvars, bvars, lvars, tvars, mvars, pvars, qvars>>
outside_registry == <<fvars, cvars, vvars, bvars, lvars, tvars, evars, pvars, qvars>>
outside_pusher == <<fvars, cvars, vvars, bvars, lvars, tvars, evars, mvars, qvars>>
outside_publish == <<fvars, cvars, vvars, bvars, lvars, tvars, evars, mvars, pvars>>

-----------------------------------------------------------------------------
(* Bounds of the model. *)
MaxOnlyLen == 3        \* characters in --only_repositories
MaxExcludeLen == 2     \* characters in --exclude_repositories
MaxCandidates == 2     \* repositories in a candidate list
MaxRepos == 2          \* source repositories of a command invocation
MaxBaseLen == 2        \* releases in the versions document a builder starts from

-----------------------------------------------------------------------------
(* Strings are sequences of characters; Python's None is a value of its    *)
(* own.                                                                    *)
Chars == {"a", "b", ","}
None == <<"None">>
RepoNames == {<<"a">>, <<"b">>, <<"a", "b">>}

StringsUpTo(n) == UNION {[1..k -> Chars] : k \in 0..n}

\* Sequences without repetition over S, of length at most n.
DistinctSeqs(S, n) ==
    {s \in UNION {[1..k -> S] : k \in 0..n} :
        \A i, j \in DOMAIN s : i # j => s[i] # s[j]}

\* None where a list of names, or a list of repositories, is expected.
NoNames == <<None>>
NoRepositories == <<[name |-> None]>>

\* Python truthiness of an option that is None or a str.
Truthy(s) == s # None /\ s # <<>>
\* Python truthiness of the source_repository_names kwarg: None or a list.
TruthyNames(names) == names # NoNames /\ names # <<>>

InList(x, list) == \E i \in DOMAIN list : list[i] = x

\* str.split(","): the pieces between commas, an empty piece included.
RECURSIVE SplitComma(_, _, _)
SplitComma(s, cur, acc) ==
    IF s = <<>> THEN Append(acc, cur)
    ELSE IF Head(s) = "," THEN SplitComma(Tail(s), <<>>, Append(acc, cur))
    ELSE SplitComma(Tail(s), Append(cur, Head(s)), acc)

Split(s) == SplitComma(s, <<>>, <<>>)

\* A repository spec is identified by its name.
make_repository_spec(name) == [name |-> name]

\* A filter that forgets the deny-list once an allow-list is given.
filter_repositories_only_wins(opts, repos) ==
    IF ~(Truthy(opts.only_repositories) \/ Truthy(opts.exclude_repositories))
    THEN repos
    ELSE
        LET restrict_filter == IF Truthy(opts.only_repositories)
                               THEN Split(opts.only_repositories) ELSE <<>>
            exclude_filter == IF Truthy(opts.exclude_repositories)
                              THEN Split(opts.exclude_repositories) ELSE <<>>
            Keep(repository) ==
                IF restrict_filter # <<>>
                THEN InList(repository.name, restrict_filter)
                ELSE ~InList(repository.name, exclude_filter)
        IN  SelectSeq(repos, Keep)

\* RepositoryCommandProcessor.filter_repositories
filter_repositories(opts, repos) ==
    IF ~(Truthy(opts.only_repositories) \/ Truthy(opts.exclude_repositories))
    THEN repos
    ELSE
        LET restrict0 == IF Truthy(opts.only_repositories)
                         THEN Split(opts.only_repositories) ELSE <<>>
            exclude_filter == IF Truthy(opts.exclude_repositories)
                              THEN Split(opts.exclude_repositories) ELSE <<>>
            restrict_filter ==
                IF restrict0 = <<>> /\ exclude_filter # <<>>
                THEN [i \in DOMAIN repos |-> repos[i].name]
                ELSE restrict0
            Keep(repository) ==
                /\ (restrict_filter = <<>> \/ InList(repository.name, restrict_filter))
                /\ ~InList(repository.name, exclude_filter)
        IN  SelectSeq(repos, Keep)

\* The list comprehension of __init__ (lines 98-111), before filter_repositories.
init_prefilter(opts, names) ==
    LET exclude_names == IF Truthy(opts.exclude_repositories)
                         THEN Split(opts.exclude_repositories) ELSE <<>>
        only_names == IF Truthy(opts.only_repositories)
                      THEN Split(opts.only_repositories) ELSE names
        Keep(name) == InList(name, only_names) /\ ~InList(name, exclude_names)
        kept == SelectSeq(names, Keep)
    IN  [i \in DOMAIN kept |-> make_repository_spec(kept[i])]

-----------------------------------------------------------------------------
(* RepositoryCommandProcessor: construction and the source_repositories     *)
(* property.                                                                *)

cvarsButPc == <<one_at_a_time, max_threads_kwarg, scm_max_threads, hook, rpc,
                thread, calls, task, first_error, postprocess_dict,
                command_result, metric_families, gauge_registered>>

DefaultMaxThreads == 64

\* __init__ lines 85-88 with every thread limit dropped.
init_max_threads_unlimited(one, kwarg) ==
    IF kwarg = {} THEN DefaultMaxThreads ELSE CHOOSE x \in kwarg : TRUE

\* __init__ lines 85-88: the max_threads handed to factory.make_scm.
init_max_threads(one, kwarg) ==
    IF one THEN 1
    ELSE IF kwarg = {} THEN DefaultMaxThreads ELSE CHOOSE x \in kwarg : TRUE

\* The source_repositories property (lines 76-81).
ResolveSourceRepositories ==
    IF source_repositories = NoRepositories
    THEN filter_repositories(options, scm_repositories)
    ELSE source_repositories

FilterInit ==
    /\ fpc = "new"
    /\ \E only \in {None} \cup StringsUpTo(MaxOnlyLen),
          exclude \in {None} \cup StringsUpTo(MaxExcludeLen) :
            options = [only_repositories |-> only, exclude_repositories |-> exclude]
    /\ \E cand \in DistinctSeqs(RepoNames, MaxCandidates),
          mode \in {"names", "scm", "empty_names"} :
            /\ source_repository_names =
                 CASE mode = "names" -> cand
                   [] mode = "scm" -> NoNames
                   [] mode = "empty_names" -> <<>>
            /\ scm_repositories =
                 IF mode = "names" THEN <<>>
                 ELSE [i \in DOMAIN cand |-> make_repository_spec(cand[i])]
    /\ source_repositories = NoRepositories
    /\ got_repositories = NoRepositories

\* RepositoryCommandProcessor.__init__
ProcessorInit ==
    /\ UNCHANGED outside_command
    /\ fpc = "new"
    /\ fpc' = "constructed"
    /\ source_repositories' =
         IF TruthyNames(source_repository_names)
         THEN filter_repositories(options,
                                  init_prefilter(options, source_repository_names))
         ELSE NoRepositories
    /\ scm_max_threads' = init_max_threads(one_at_a_time, max_threads_kwarg)
    /\ UNCHANGED <<options, source_repository_names, scm_repositories,
                   got_repositories>>
    /\ UNCHANGED <<cpc, one_at_a_time, max_threads_kwarg, hook, rpc, thread, calls,
                   task, first_error, postprocess_dict, command_result,
                   metric_families, gauge_registered>>

\* The source_repositories property: resolved from the scm on first use.
SourceRepositories ==
    /\ UNCHANGED outside_command
    /\ fpc = "constructed"
    /\ fpc' = "resolved"
    /\ source_repositories' = ResolveSourceRepositories
    /\ got_repositories' = source_repositories'
    /\ UNCHANGED <<options, source_repository_names, scm_repositories, cvars>>

(* The metrics registry (base_metrics.py). A family maps label bindings to *)
(* metric instances; an instance is modelled by its value: a counter's or  *)
(* a timer's count, a gauge's value.                                       *)

\* _do_make_family: a new, empty family that no registry holds yet.
MakeFamily(family_type) == [family_type |-> family_type, instances |-> <<>>]

\* MetricFamily.get(labels), then the instance's inc/dec/observe: both under
\* the family's and the instance's own mutex.
FamilyUpdate(family, labels, amount) ==
    [family EXCEPT !.instances =
        IF labels \in DOMAIN @
        THEN [@ EXCEPT ![labels] = @ + amount]
        ELSE @ @@ (labels :> amount)]

\* get_metric line 377: the unlocked read of __metric_families.
get_metric_lookup(families, name) == name \in DOMAIN families

\* get_metric lines 378-383: the family is registered.
get_metric_found(families, name, labels, amount) ==
    [families EXCEPT ![name] = FamilyUpdate(@, labels, amount)]

\* get_metric lines 385-389, reached after the read found no family: make a
\* family, register it unless the name has been registered meanwhile, and use
\* the family just made either way.
get_metric_make(families, family_type, name, labels, amount) ==
    IF name \notin DOMAIN families
    THEN [families |-> families @@
                         (name :> FamilyUpdate(MakeFamily(family_type), labels, amount)),
          registered |-> TRUE]
    ELSE [families |-> families, registered |-> FALSE]

\* get_metric run by the only thread using the registry.
get_metric_alone(families, family_type, name, labels, amount) ==
    IF get_metric_lookup(families, name)
    THEN [families |-> get_metric_found(families, name, labels, amount),
          registered |-> TRUE]
    ELSE get_metric_make(families, family_type, name, labels, amount)

-----------------------------------------------------------------------------
(* One invocation of a repository command.                                 *)

CommandName == "cmd"
MainKey == None          \* the key of the whole command's tracked call

\* The names of the invocation's repositories, in order.
CommandRepoNames == <<<<"a">>, <<"b">>, <<"a", "b">>>>

RepoSeq ==
    IF source_repositories = NoRepositories THEN <<>>
    ELSE [i \in DOMAIN source_repositories |-> source_repositories[i].name]
Repos == {RepoSeq[i] : i \in DOMAIN RepoSeq}
IndexOf(r) == CHOOSE i \in DOMAIN RepoSeq : RepoSeq[i] = r

NoResult == [kind |-> "pending", of |-> None]
Null == [kind |-> "null", of |-> None]
ValueOf(r) == [kind |-> "value", of |-> r]
NoError == [type |-> "", of |-> None]
ErrorOf(r) == [type |-> "ValueError", of |-> r]
NoLabels == [command |-> "", repository |-> None, success |-> FALSE,
             exception_type |-> ""]

\* CommandProcessor.determine_metric_labels
determine_metric_labels == [command |-> CommandName]
\* _do_call_do_repository lines 31-32
repository_metric_labels(r) == [command |-> CommandName, repository |-> r]

\* default_determine_outcome_labels: sys.exc_info() of the calling thread
\* tells whether the wrapped call raised, and what.
default_determine_outcome_labels(base_labels, error) ==
    [command |-> base_labels.command,
     repository |-> IF "repository" \in DOMAIN base_labels
                    THEN base_labels.repository ELSE None,
     success |-> error = NoError,
     exception_type |-> error.type]

\* The outcome labels of the whole command have no repository binding.
command_outcome_labels(error) ==
    [command |-> CommandName, success |-> error = NoError,
     exception_type |-> error.type]

\* The value the command's _do_postprocess hook returns for a result dict.
PostprocessValue(result_dict) == [postprocessed |-> result_dict]

NoTask == [result |-> NoResult, error |-> NoError, outcome_labels |-> NoLabels,
           observed |-> FALSE, hook_thread |-> 0]

ZeroCalls(names) ==
    [preprocess |-> 0, postprocess |-> 0,
     skip_check |-> [r \in names |-> 0], skip_inc |-> [r \in names |-> 0],
     ensure |-> [r \in names |-> 0], work |-> [r \in names |-> 0]]

\* _do_repository_wrapper with the early return of the skip branch missing.
do_repository_wrapper_never_skips(h) == "ensure"

\* _do_repository_wrapper with the call of ensure_local_repository missing.
do_repository_wrapper_no_ensure(h) == IF h = "skip" THEN "skip_inc" ELSE "work"

\* _do_repository_wrapper lines 180-188: what follows the skip check.
do_repository_wrapper_next(h) == IF h = "skip" THEN "skip_inc" ELSE "ensure"

\* _do_command going on to _do_postprocess whatever the tasks ended with.
do_command_ignores_error(error) == "postprocess"

\* _do_command lines 155-158: an error of foreach_source_repository
\* propagates, and _do_postprocess is not reached.
do_command_next(error) == IF error = NoError THEN "postprocess" ELSE "observe"

\* _do_command returning the result dict instead of the hook's value.
do_command_returns_dict(result_dict) == [kind |-> "returned", value |-> result_dict]

\* _do_command line 158: the invocation's result is what _do_postprocess returns.
do_command_result(result_dict) ==
    [kind |-> "returned", value |-> PostprocessValue(result_dict)]

CommandIdle ==
    /\ cpc = "idle"
    /\ one_at_a_time = FALSE
    /\ max_threads_kwarg = {}
    /\ scm_max_threads = 0
    /\ hook = <<>>
    /\ rpc = <<>>
    /\ thread = <<>>
    /\ calls = ZeroCalls({})
    /\ task = <<>>
    /\ first_error = NoError
    /\ postprocess_dict = <<>>
    /\ command_result = [kind |-> "pending"]
    /\ metric_families = <<>>
    /\ gauge_registered = <<>>

CommandInit ==
    /\ fpc = "new"
    /\ options = [only_repositories |-> None, exclude_repositories |-> None]
    /\ \E n \in 0..MaxRepos :
          /\ source_repository_names = SubSeq(CommandRepoNames, 1, n)
          /\ LET names == {CommandRepoNames[i] : i \in 1..n} IN
                /\ hook \in [names -> {"skip", "ok", "raise"}]
                /\ rpc = [r \in names |-> "queued"]
                /\ thread = [r \in names |-> 0]
                /\ calls = ZeroCalls(names)
                /\ task = [r \in names |-> NoTask]
                /\ gauge_registered = [r \in names \cup {MainKey} |-> FALSE]
    /\ scm_repositories = <<>>
    /\ source_repositories = NoRepositories
    /\ got_repositories = NoRepositories
    /\ cpc = "new"
    /\ one_at_a_time \in BOOLEAN
    /\ max_threads_kwarg \in {{}, {1}, {2}}
    /\ scm_max_threads = 0
    /\ first_error = NoError
    /\ postprocess_dict = <<>>
    /\ command_result = [kind |-> "pending"]
    /\ metric_families = <<>>

\* CommandProcessor.__call__ up to the call of _do_command: the RunCommand
\* gauge is made and incremented (track_and_time_call, track_call, Gauge.track).
Call ==
    /\ UNCHANGED outside_command
    /\ cpc = "new" /\ fpc = "constructed"
    /\ LET got == get_metric_alone(metric_families, "GAUGE", "RunCommand_InProgress",
                                   determine_metric_labels, 1) IN
          /\ metric_families' = got.families
          /\ gauge_registered' = [gauge_registered EXCEPT ![MainKey] = got.registered]
    /\ cpc' = "preprocess"
    /\ UNCHANGED <<fvars, one_at_a_time, max_threads_kwarg, scm_max_threads, hook,
                   rpc, thread, calls, task, first_error, postprocess_dict,
                   command_result>>

\* _do_command line 154
DoPreprocess ==
    /\ UNCHANGED outside_command
    /\ cpc = "preprocess"
    /\ calls' = [calls EXCEPT !.preprocess = @ + 1]
    /\ cpc' = "foreach"
    /\ UNCHANGED <<fvars, one_at_a_time, max_threads_kwarg, scm_max_threads, hook,
                   rpc, thread, task, first_error, postprocess_dict,
                   command_result, metric_families, gauge_registered>>

\* _do_command lines 155-157: the source_repositories are resolved and handed
\* to scm.foreach_source_repository, which queues one task per repository.
Foreach ==
    /\ UNCHANGED outside_command
    /\ cpc = "foreach"
    /\ source_repositories' = ResolveSourceRepositories
    /\ got_repositories' = source_repositories'
    /\ fpc' = "resolved"
    /\ cpc' = "waiting"
    /\ UNCHANGED <<options, source_repository_names, scm_repositories, cvarsButPc>>

\* The threads foreach_source_repository runs its tasks on.
PoolThreads ==
    1..(IF scm_max_threads < Len(RepoSeq) THEN scm_max_threads ELSE Len(RepoSeq))
Running == {r \in Repos : rpc[r] \notin {"queued", "done"}}
IdleThreads == PoolThreads \ {thread[r] : r \in Running}
LeastOf(S) == CHOOSE x \in S : \A y \in S : x <= y

\* An idle pool thread takes the next queued repository and enters
\* _do_call_do_repository. Pool threads are interchangeable: the least idle
\* one takes the task.
PoolStart(r) ==
    /\ UNCHANGED outside_command
    /\ cpc = "waiting"
    /\ rpc[r] = "queued"
    /\ \A q \in Repos : IndexOf(q) < IndexOf(r) => rpc[q] # "queued"
    /\ IdleThreads # {}
    /\ thread' = [thread EXCEPT ![r] = LeastOf(IdleThreads)]
    /\ rpc' = [rpc EXCEPT ![r] = "track"]
    /\ UNCHANGED <<fvars, cpc, one_at_a_time, max_threads_kwarg, scm_max_threads,
                   hook, calls, task, first_error, postprocess_dict,
                   command_result, metric_families, gauge_registered>>

\* What a step of a repository's unit of work leaves alone.
WorkerFrame ==
    UNCHANGED <<outside_command, fvars, cpc, one_at_a_time, max_threads_kwarg, scm_max_threads,
                hook, thread, first_error, postprocess_dict, command_result>>

\* track_call's get_metric for the RunRepositoryCommand gauge: the read of
\* the registry and, when the family is there, Gauge.track's inc.
Track(r) ==
    /\ rpc[r] = "track"
    /\ IF get_metric_lookup(metric_families, "RunRepositoryCommand_InProgress")
       THEN /\ metric_families' =
                 get_metric_found(metric_families, "RunRepositoryCommand_InProgress",
                                  repository_metric_labels(r), 1)
            /\ gauge_registered' = [gauge_registered EXCEPT ![r] = TRUE]
            /\ rpc' = [rpc EXCEPT ![r] = "skip_check"]
       ELSE /\ rpc' = [rpc EXCEPT ![r] = "track_make"]
            /\ UNCHANGED <<metric_families, gauge_registered>>
    /\ UNCHANGED <<calls, task>>
    /\ WorkerFrame

TrackMake(r) ==
    /\ rpc[r] = "track_make"
    /\ LET got == get_metric_make(metric_families, "GAUGE",
                                  "RunRepositoryCommand_InProgress",
                                  repository_metric_labels(r), 1) IN
          /\ metric_families' = got.families
          /\ gauge_registered' = [gauge_registered EXCEPT ![r] = got.registered]
    /\ rpc' = [rpc EXCEPT ![r] = "skip_check"]
    /\ UNCHANGED <<calls, task>>
    /\ WorkerFrame

\* _do_repository_wrapper line 180
SkipCheck(r) ==
    /\ rpc[r] = "skip_check"
    /\ calls' = [calls EXCEPT !.skip_check[r] = @ + 1]
    /\ rpc' = [rpc EXCEPT ![r] = do_repository_wrapper_next(hook[r])]
    /\ UNCHANGED <<task, metric_families, gauge_registered>>
    /\ WorkerFrame

\* _do_repository_wrapper lines 181-186: inc_counter and the null result,
\* with the read of the registry first.
SkipInc(r) ==
    /\ rpc[r] = "skip_inc"
    /\ IF get_metric_lookup(metric_families, "SkipRepositoryCommand")
       THEN /\ metric_families' =
                 get_metric_found(metric_families, "SkipRepositoryCommand",
                                  repository_metric_labels(r), 1)
            /\ calls' = [calls EXCEPT !.skip_inc[r] = @ + 1]
            /\ task' = [task EXCEPT ![r].result = Null,
                                    ![r].outcome_labels =
                                        default_determine_outcome_labels(
                                            repository_metric_labels(r), NoError)]
            /\ rpc' = [rpc EXCEPT ![r] = "observe"]
       ELSE /\ rpc' = [rpc EXCEPT ![r] = "skip_inc_make"]
            /\ UNCHANGED <<metric_families, calls, task>>
    /\ UNCHANGED gauge_registered
    /\ WorkerFrame

SkipIncMake(r) ==
    /\ rpc[r] = "skip_inc_make"
    /\ metric_families' =
         get_metric_make(metric_families, "COUNTER", "SkipRepositoryCommand",
                         repository_metric_labels(r), 1).families
    /\ calls' = [calls EXCEPT !.skip_inc[r] = @ + 1]
    /\ task' = [task EXCEPT ![r].result = Null,
                            ![r].outcome_labels =
                                default_determine_outcome_labels(
                                    repository_metric_labels(r), NoError)]
    /\ rpc' = [rpc EXCEPT ![r] = "observe"]
    /\ UNCHANGED gauge_registered
    /\ WorkerFrame

\* _do_repository_wrapper line 188
Ensure(r) ==
    /\ rpc[r] = "ensure"
    /\ calls' = [calls EXCEPT !.ensure[r] = @ + 1]
    /\ rpc' = [rpc EXCEPT ![r] = "work"]
    /\ UNCHANGED <<task, metric_families, gauge_registered>>
    /\ WorkerFrame

\* _do_repository_wrapper line 189: the work hook is entered.
WorkBegin(r) ==
    /\ rpc[r] = "work"
    /\ calls' = [calls EXCEPT !.work[r] = @ + 1]
    /\ task' = [task EXCEPT ![r].hook_thread = thread[r]]
    /\ rpc' = [rpc EXCEPT ![r] = "working"]
    /\ UNCHANGED <<metric_families, gauge_registered>>
    /\ WorkerFrame

\* The work hook returns its value or raises; time_call (lines 347-358)
\* determines the outcome labels.
WorkEnd(r) ==
    /\ rpc[r] = "working"
    /\ LET error == IF hook[r] = "raise" THEN ErrorOf(r) ELSE NoError IN
          task' = [task EXCEPT
                     ![r].result = IF hook[r] = "raise" THEN NoResult ELSE ValueOf(r),
                     ![r].error = error,
                     ![r].outcome_labels =
                         default_determine_outcome_labels(
                             repository_metric_labels(r), error)]
    /\ rpc' = [rpc EXCEPT ![r] = "observe"]
    /\ UNCHANGED <<calls, metric_families, gauge_registered>>
    /\ WorkerFrame

\* time_call's finally (lines 360-361): get_metric for the outcome timer and
\* its observe, with the read of the registry first.
Observe(r) ==
    /\ rpc[r] = "observe"
    /\ IF get_metric_lookup(metric_families, "RunRepositoryCommand_Outcome")
       THEN /\ metric_families' =
                 get_metric_found(metric_families, "RunRepositoryCommand_Outcome",
                                  task[r].outcome_labels, 1)
            /\ task' = [task EXCEPT ![r].observed = TRUE]
            /\ rpc' = [rpc EXCEPT ![r] = "untrack"]
       ELSE /\ rpc' = [rpc EXCEPT ![r] = "observe_make"]
            /\ UNCHANGED <<metric_families, task>>
    /\ UNCHANGED <<calls, gauge_registered>>
    /\ WorkerFrame

ObserveMake(r) ==
    /\ rpc[r] = "observe_make"
    /\ metric_families' =
         get_metric_make(metric_families, "TIMER", "RunRepositoryCommand_Outcome",
                         task[r].outcome_labels, 1).families
    /\ task' = [task EXCEPT ![r].observed = TRUE]
    /\ rpc' = [rpc EXCEPT ![r] = "untrack"]
    /\ UNCHANGED <<calls, gauge_registered>>
    /\ WorkerFrame

\* foreach_source_repository keeps the first error a task ended with.
pool_task_ended(first, error) == IF first = NoError THEN error ELSE first

\* Gauge.track's finally (dec), then _do_call_do_repository returns the result
\* or logs and re-raises: the pool task ends.
Untrack(r) ==
    /\ UNCHANGED outside_command
    /\ rpc[r] = "untrack"
    /\ metric_families' =
         IF gauge_registered[r]
         THEN get_metric_found(metric_families, "RunRepositoryCommand_InProgress",
                               repository_metric_labels(r), -1)
         ELSE metric_families
    /\ rpc' = [rpc EXCEPT ![r] = "done"]
    /\ first_error' = pool_task_ended(first_error, task[r].error)
    /\ UNCHANGED <<fvars, cpc, one_at_a_time, max_threads_kwarg, scm_max_threads,
                   hook, thread, calls, task, postprocess_dict, command_result,
                   gauge_registered>>

\* foreach_source_repository returns once every task has ended: the mapping
\* of repository name to result, or the first error raised.
ResultDict == [r \in Repos |-> task[r].result]

Join ==
    /\ UNCHANGED outside_command
    /\ cpc = "waiting"
    /\ \A r \in Repos : rpc[r] = "done"
    /\ cpc' = do_command_next(first_error)
    /\ UNCHANGED <<fvars, cvarsButPc>>

\* _do_command line 158
DoPostprocess ==
    /\ UNCHANGED outside_command
    /\ cpc = "postprocess"
    /\ calls' = [calls EXCEPT !.postprocess = @ + 1]
    /\ postprocess_dict' = ResultDict
    /\ command_result' = do_command_result(ResultDict)
    /\ cpc' = "observe"
    /\ UNCHANGED <<fvars, one_at_a_time, max_threads_kwarg, scm_max_threads, hook,
                   rpc, thread, task, first_error, metric_families,
                   gauge_registered>>

\* time_call's finally for the whole command: the RunCommand_Outcome timer.
CommandObserve ==
    /\ UNCHANGED outside_command
    /\ cpc = "observe"
    /\ metric_families' =
         get_metric_alone(metric_families, "TIMER", "RunCommand_Outcome",
                          command_outcome_labels(first_error), 1).families
    /\ cpc' = "untrack"
    /\ UNCHANGED <<fvars, one_at_a_time, max_threads_kwarg, scm_max_threads, hook,
                   rpc, thread, calls, task, first_error, postprocess_dict,
                   command_result, gauge_registered>>

\* Gauge.track's finally, then __call__ returns the result or re-raises.
CommandUntrack ==
    /\ UNCHANGED outside_command
    /\ cpc = "untrack"
    /\ metric_families' =
         IF gauge_registered[MainKey]
         THEN get_metric_found(metric_families, "RunCommand_InProgress",
                               determine_metric_labels, -1)
         ELSE metric_families
    /\ command_result' =
         IF first_error = NoError THEN command_result
         ELSE [kind |-> "raised", error |-> first_error]
    /\ cpc' = IF first_error = NoError THEN "returned" ELSE "raised"
    /\ UNCHANGED <<fvars, one_at_a_time, max_threads_kwarg, scm_max_threads, hook,
                   rpc, thread, calls, task, first_error, postprocess_dict,
                   gauge_registered>>

CommandNext ==
    \/ ProcessorInit
    \/ Call
    \/ DoPreprocess
    \/ Foreach
    \/ \E r \in Repos : PoolStart(r)
    \/ \E r \in Repos : Track(r)
    \/ \E r \in Repos : TrackMake(r)
    \/ \E r \in Repos : SkipCheck(r)
    \/ \E r \in Repos : SkipInc(r)
    \/ \E r \in Repos : SkipIncMake(r)
    \/ \E r \in Repos : Ensure(r)
    \/ \E r \in Repos : WorkBegin(r)
    \/ \E r \in Repos : WorkEnd(r)
    \/ \E r \in Repos : Observe(r)
    \/ \E r \in Repos : ObserveMake(r)
    \/ \E r \in Repos : Untrack(r)
    \/ Join
    \/ DoPostprocess
    \/ CommandObserve
    \/ CommandUntrack

(* VersionsBuilder (versions_commands.py). A version is the str Python     *)
(* holds: a sequence of code points, compared the way Python compares str. *)

MAXIMUM_SPINNAKER_RELEASE_COUNT == 3

Dot == 46                \* ord(".")
Zero == 48               \* ord("0")
LetterV == 118           \* ord("v")

\* str(n) for a natural number: decimal digits, no leading zero.
RECURSIVE Numeral(_)
Numeral(n) == IF n < 10 THEN <<Zero + n>>
              ELSE Numeral(n \div 10) \o <<Zero + (n % 10)>>

\* f"{major}.{minor}.{patch}"
VersionString(major, minor, patch) ==
    Numeral(major) \o <<Dot>> \o Numeral(minor) \o <<Dot>> \o Numeral(patch)

\* str < str: by code point, a proper prefix being less.
RECURSIVE StrLess(_, _)
StrLess(a, b) ==
    IF b = <<>> THEN FALSE
    ELSE IF a = <<>> THEN TRUE
    ELSE IF Head(a) # Head(b) THEN Head(a) < Head(b)
    ELSE StrLess(Tail(a), Tail(b))

\* str.split("."): the pieces between dots.
RECURSIVE SplitDot(_, _, _)
SplitDot(s, cur, acc) ==
    IF s = <<>> THEN Append(acc, cur)
    ELSE IF Head(s) = Dot THEN SplitDot(Tail(s), <<>>, Append(acc, cur))
    ELSE SplitDot(Tail(s), Append(cur, Head(s)), acc)

\* VersionsBuilder.get_major_minor_patch_version
get_major_minor_patch_version(version) == SplitDot(version, <<>>, <<>>)

IsDigit(c) == Zero <= c /\ c <= Zero + 9
\* The (0|[1-9]\d*) of SEMVER_REGEX.
IsNumeral(s) ==
    /\ s # <<>>
    /\ \A i \in DOMAIN s : IsDigit(s[i])
    /\ Len(s) > 1 => s[1] # Zero
\* SEMVER_REGEX, on strings of digits and dots: no prerelease, no build part.
IsSemver(s) ==
    LET parts == SplitDot(s, <<>>, <<>>) IN
        Len(parts) = 3 /\ \A i \in 1..3 : IsNumeral(parts[i])

\* VersionsBuilder.build_single_release_dict; changelog and lastUpdate, which
\* nothing here reads, are left out.
build_single_release_dict(spinnaker_version, minimum_halyard_version) ==
    [alias |-> <<LetterV>> \o spinnaker_version,
     minimumHalyardVersion |-> minimum_halyard_version,
     version |-> spinnaker_version]

\* add_or_replace_release line 152: patch1 < patch2, on str.
patch_less(patch1, patch2) == StrLess(patch1, patch2)

\* add_or_replace_release, the loop from index idx on (lines 132-168) and the
\* append (lines 170-171). The list is changed in place, so a raise leaves it
\* as changed so far.
RECURSIVE add_or_replace_from(_, _, _, _)
add_or_replace_from(new_release, versions, idx, patched) ==
    IF idx > Len(versions)
    THEN [error |-> "",
          versions |-> IF patched THEN versions ELSE Append(versions, new_release)]
    ELSE
        LET new_parts == get_major_minor_patch_version(new_release.version)
            old_parts == get_major_minor_patch_version(versions[idx].version)
        IN  IF new_parts[1] = old_parts[1] /\ new_parts[2] = old_parts[2]
            THEN IF new_parts[3] = old_parts[3]
                 THEN [error |-> "exists", versions |-> versions]
                 ELSE IF patch_less(new_parts[3], old_parts[3])
                 THEN [error |-> "superseded", versions |-> versions]
                 ELSE add_or_replace_from(new_release,
                                          [versions EXCEPT ![idx] = new_release],
                                          idx + 1, TRUE)
            ELSE add_or_replace_from(new_release, versions, idx + 1, patched)

\* add_or_replace_release without the search for the release line: the new
\* release is always appended.
add_or_replace_always_appends(new_release, versions) ==
    [error |-> "", versions |-> Append(versions, new_release)]

\* VersionsBuilder.add_or_replace_release
add_or_replace_release(new_release, versions) ==
    add_or_replace_from(new_release, versions, 1, FALSE)

\* sorted(..., key=version, reverse=True) is stable: a release goes before the
\* first one whose version is lower, after those that are equal.
RECURSIVE InsertDescending(_, _)
InsertDescending(sorted, release) ==
    IF sorted = <<>> THEN <<release>>
    ELSE IF StrLess(Head(sorted).version, release.version)
    THEN <<release>> \o sorted
    ELSE <<Head(sorted)>> \o InsertDescending(Tail(sorted), release)

RECURSIVE SortedDescending(_, _)
SortedDescending(done, rest) ==
    IF rest = <<>> THEN done
    ELSE SortedDescending(InsertDescending(done, Head(rest)), Tail(rest))

\* build lines 193-195
sorted_versions(updated_versions) == SortedDescending(<<>>, updated_versions)

\* build with the truncation forgotten.
trimmed_versions_untrimmed(sorted) == sorted

\* build line 197
trimmed_versions(sorted) ==
    SubSeq(sorted, 1, IF Len(sorted) < MAXIMUM_SPINNAKER_RELEASE_COUNT
                      THEN Len(sorted) ELSE MAXIMUM_SPINNAKER_RELEASE_COUNT)

\* validate_versions_yml: VERSIONS_YML_SCHEMA on the fields modelled.
validate_versions_yml(versions_dict) ==
    /\ IsSemver(versions_dict.latestHalyard)
    /\ IsSemver(versions_dict.latestSpinnaker)
    /\ \A i \in DOMAIN versions_dict.versions :
          IsSemver(versions_dict.versions[i].version)
    /\ \A i \in DOMAIN versions_dict.illegalVersions.entries :
          IsSemver(versions_dict.illegalVersions.entries[i].version)

\* build with the latest_halyard_version argument ignored.
final_latest_halyard_keeps_base(base_value, latest_halyard_version) == base_value

\* build lines 203-204: latestHalyard after the call.
final_latest_halyard(base_value, latest_halyard_version) ==
    IF Truthy(latest_halyard_version) THEN latest_halyard_version ELSE base_value

\* VersionsBuilder.build: the builder's dict after the call, and how it ended.
\* The dict and its versions list are changed in place, so what was done
\* before a raise stays done.
build(base, new_spinnaker_version, minimum_halyard_version, latest_halyard_version) ==
    LET new_release == build_single_release_dict(new_spinnaker_version,
                                                 minimum_halyard_version)
        updated == add_or_replace_release(new_release, base.versions)
        trimmed == trimmed_versions(sorted_versions(updated.versions))
        final == [base EXCEPT
                     !.versions = trimmed,
                     !.latestSpinnaker = trimmed[1].version,
                     !.latestHalyard = final_latest_halyard(base.latestHalyard,
                                                            latest_halyard_version)]
    IN  IF updated.error # ""
        THEN [error |-> updated.error,
              added |-> updated.versions,
              dict |-> [base EXCEPT !.versions = updated.versions]]
        ELSE [error |-> IF validate_versions_yml(final) THEN "" ELSE "schema",
              added |-> updated.versions,
              dict |-> final]

\* The versions the model builds documents from.
Majors == {1}
Minors == {9, 10, 11, 12}
Patches == {9, 10}
VersionStrings ==
    {VersionString(major, minor, patch) :
        major \in Majors, minor \in Minors, patch \in Patches}
MinimumHalyard == VersionString(1, 45, 0)
\* latestHalyard of a base document: the default "0.0.0", or "1.45", which
\* the schema rejects.
BaseHalyards == {VersionString(0, 0, 0), Numeral(1) \o <<Dot>> \o Numeral(45)}
\* The latest_halyard_version argument: not given, the empty str, or "1.46.0".
HalyardArguments == {None, <<>>, VersionString(1, 46, 0)}
\* The optional illegalVersions key of a document: absent, or its entries.
NoIllegalVersions == [present |-> FALSE, entries |-> <<>>]
SomeIllegalVersions ==
    [present |-> TRUE,
     entries |-> <<[reason |-> "broken", version |-> VersionString(1, 8, 0)]>>]
\* What a base document holds besides its versions list.
BaseFrames ==
    {[latestHalyard |-> h, illegalVersions |-> NoIllegalVersions] : h \in BaseHalyards}
    \cup {[latestHalyard |-> VersionString(0, 0, 0),
            illegalVersions |-> SomeIllegalVersions]}

Releases == {build_single_release_dict(v, MinimumHalyard) : v \in VersionStrings}

NoBuild == [called |-> FALSE]

FilterIdle ==
    /\ fpc = "idle"
    /\ options = [only_repositories |-> None, exclude_repositories |-> None]
    /\ source_repository_names = NoNames
    /\ scm_repositories = <<>>
    /\ source_repositories = NoRepositories
    /\ got_repositories = NoRepositories

VersionsIdle ==
    /\ vpc = "idle"
    /\ base_versions = [latestHalyard |-> VersionString(0, 0, 0),
                        latestSpinnaker |-> VersionString(0, 0, 0),
                        illegalVersions |-> NoIllegalVersions,
                        versions |-> <<>>]
    /\ last_build = NoBuild

\* VersionsBuilder.__init__: the default document, or any base document.
VersionsInit ==
    /\ vpc = "ready"
    /\ \E versions \in UNION {[1..n -> Releases] : n \in 0..MaxBaseLen},
          frame \in BaseFrames :
            base_versions = [latestHalyard |-> frame.latestHalyard,
                             latestSpinnaker |-> VersionString(0, 0, 0),
                             illegalVersions |-> frame.illegalVersions,
                             versions |-> versions]
    /\ last_build = NoBuild

Build(new_spinnaker_version, latest_halyard_version) ==
    /\ vpc = "ready"
    /\ \E got \in {build(base_versions, new_spinnaker_version, MinimumHalyard,
                        latest_halyard_version)} :
          /\ base_versions' = got.dict
          /\ last_build' = [called |-> TRUE,
                            new_spinnaker_version |-> new_spinnaker_version,
                            latest_halyard_version |-> latest_halyard_version,
                            before |-> base_versions,
                            added |-> got.added,
                            error |-> got.error]
    /\ vpc' = "returned"
    /\ UNCHANGED outside_versions

\* The caller has build's result or its error, and the builder, which keeps
\* its document, can be called again.
BuildReturned ==
    /\ vpc = "returned"
    /\ vpc' = "ready"
    /\ last_build' = NoBuild
    /\ UNCHANGED base_versions
    /\ UNCHANGED outside_versions

VersionsNext ==
    \/ \E v \in VersionStrings, h \in HalyardArguments : Build(v, h)
    \/ BuildReturned



-----------------------------------------------------------------------------
(* BomBuilder (bom_commands.py). A dict is a function on its keys; an       *)
(* entry of __services is an object with an identity, held in bom_objects,  *)
(* so that two service names can be told to share one mapping or not.       *)

\* dict.get(key, default)
Get(dict, key, default) == IF key \in DOMAIN dict THEN dict[key] ELSE default
\* dict[key] = value
DictSet(dict, key, value) ==
    [k \in DOMAIN dict \cup {key} |-> IF k = key THEN value ELSE dict[k]]
EmptyDict == [k \in {} |-> None]

\* A git URL is the sequence of its path components; url[: url.rfind("/")]
\* is the URL up to the terminal component (to_git_url_prefix, for the URLs
\* that do not start with "git@").
to_git_url_prefix(url) == SubSeq(url, 1, Len(url) - 1)

PrefixOne == <<"http://github.com", "one">>
PrefixTwo == <<"local", "source", "two">>
OriginOf(prefix, service_name) == Append(prefix, service_name)

\* A build version is the sequence of its characters.
Hyphen == "-"
BuildVersion_1_0_0_0 == <<"1", ".", "0", ".", "0", "-", "0">>
BuildVersion_1_0_0_1 == <<"1", ".", "0", ".", "0", "-", "1">>
BuildVersion_1_0_1_0 == <<"1", ".", "0", ".", "1", "-", "0">>

CommitOne == <<"C1">>
CommitTwo == <<"C2">>

\* str.find("-"): the 0-based index of the first hyphen, or -1.
RECURSIVE FindHyphenFrom(_, _)
FindHyphenFrom(build_version, index) ==
    IF index >= Len(build_version) THEN -1
    ELSE IF build_version[index + 1] = Hyphen THEN index
    ELSE FindHyphenFrom(build_version, index + 1)

\* to_semver of build, lines 173-175
to_semver(build_version) ==
    LET index == FindHyphenFrom(build_version, 0) IN
        IF index >= 0 THEN SubSeq(build_version, 1, index) ELSE build_version

\* The names of the services and the objects that hold their entries.
MonitoringDaemon == "monitoring-daemon"
MonitoringThirdParty == "monitoring-third-party"
BaseObject(service_name) == [owner |-> "base", name |-> service_name]
AddedObject(service_name) == [owner |-> "added", name |-> service_name]

\* What add_repository can be given: the service name of the repository, the
\* commit and build version of its source_info, and its origin.
AddedSources ==
    {[service |-> "clouddriver", commit |-> c, version |-> v, origin |-> OriginOf(PrefixOne, "clouddriver")] :
        <<c, v>> \in {<<CommitOne, BuildVersion_1_0_0_0>>, <<CommitOne, BuildVersion_1_0_0_1>>,
                      <<CommitOne, BuildVersion_1_0_1_0>>, <<CommitTwo, BuildVersion_1_0_0_1>>}}
    \cup {[service |-> n, commit |-> CommitTwo, version |-> BuildVersion_1_0_0_1,
           origin |-> OriginOf(p, n)] :
            n \in {"gate", MonitoringDaemon}, p \in {PrefixOne, PrefixTwo}}

\* build lines 163-168: the artifactSources of a BOM with this gitPrefix.
ArtifactSources(default_source_prefix) ==
    [gitPrefix |-> default_source_prefix,
     debianRepository |-> "SPINNAKER_DEBIAN_REPOSITORY",
     dockerRegistry |-> "SPINNAKER_DOCKER_REGISTRY",
     googleImageProject |-> "SPINNAKER_GOOGLE_IMAGE_PROJECT"]

DependenciesOne == [redis |-> "1"]
DependenciesTwo == [redis |-> "2"]
NoDependenciesFile == [present |-> FALSE, content |-> EmptyDict]
DependenciesFile(content) == [present |-> TRUE, content |-> content]

BuildNumber == "UpdatedBuildNumber"
GitBranch == "master"
BaseTimestamp == "2018-01-01 00:00:00"
NowTimestamp == "2018-01-02 03:04:05"

\* The services of the base BOMs: clouddriver and the two monitoring entries
\* at commit C1, version 1.0.0-0, each entry an object of its own.
BaseServiceNames == {"clouddriver", MonitoringDaemon, MonitoringThirdParty}
BaseServices == [n \in BaseServiceNames |-> BaseObject(n)]
BaseEntry == [commit |-> CommitOne, version |-> BuildVersion_1_0_0_0]

\* A BOM as build writes it.
FullBom ==
    [artifactSources |-> ArtifactSources(PrefixOne),
     dependencies |-> DependenciesOne,
     services |-> BaseServices,
     version |-> "BaseBuildNumber",
     timestamp |-> BaseTimestamp]

\* The base BOMs: none ({}), a full one, one that was built from no
\* repository under other dependencies (its gitPrefix is null), and one with
\* no dependencies block.
BaseBoms ==
    {EmptyDict,
     FullBom,
     [FullBom EXCEPT !.artifactSources = ArtifactSources(None),
                     !.dependencies = DependenciesTwo],
     [k \in DOMAIN FullBom \ {"dependencies"} |-> FullBom[k]]}

\* BomBuilder.__init__ lines 86-94: without a base BOM and without
\* --bom_dependencies_path the builder reads its own bom_dependencies.yml;
\* otherwise it reads the file of the option, if the option is set.
BomDependenciesFiles(base) ==
    IF base = EmptyDict THEN {DependenciesFile(DependenciesOne)}
    ELSE {NoDependenciesFile, DependenciesFile(DependenciesOne)}

\* No build call is being looked at; previous is what the last call returned
\* ("base", "new", or "none" for an error), if no repository was added since.
NoBomBuild(previous) == [called |-> FALSE, previous |-> previous]

BomIdle ==
    /\ bpc = "idle"
    /\ base_bom = EmptyDict
    /\ bom_dependencies_file = NoDependenciesFile
    /\ bom_order = <<>>
    /\ bom_services = EmptyDict
    /\ bom_repositories = EmptyDict
    /\ bom_objects = EmptyDict
    /\ last_bom = NoBomBuild("none")

\* BomBuilder.__init__
BomInit ==
    /\ bpc = "ready"
    /\ base_bom \in BaseBoms
    /\ bom_dependencies_file \in BomDependenciesFiles(base_bom)
    /\ bom_order = <<>>
    /\ bom_services = EmptyDict
    /\ bom_repositories = EmptyDict
    /\ bom_objects = IF base_bom = EmptyDict THEN EmptyDict
                     ELSE [o \in {BaseObject(n) : n \in BaseServiceNames} |-> BaseEntry]
    /\ last_bom = NoBomBuild("none")

\* add_repository with the copy of line 119 missing: monitoring-third-party
\* is given the very object of monitoring-daemon.
third_party_version_info_shared(version_info) == version_info

\* add_repository line 119: dict(version_info) is a new object.
third_party_version_info(version_info) == AddedObject(MonitoringThirdParty)

\* The keys of a dict in insertion order, after dict[key] = ... .
KeyAdded(order, key) == IF InList(key, order) THEN order ELSE Append(order, key)

\* BomBuilder.add_repository
AddRepository(source) ==
    /\ bpc = "ready"
    /\ LET version_info == AddedObject(source.service)
           entry == [commit |-> source.commit, version |-> source.version]
           copy == third_party_version_info(version_info)
       IN  IF source.service = MonitoringDaemon
           THEN /\ bom_services' = DictSet(DictSet(bom_services, source.service, version_info),
                                          MonitoringThirdParty, copy)
                /\ bom_repositories' =
                      DictSet(DictSet(bom_repositories, source.service, source.origin),
                              MonitoringThirdParty, source.origin)
                /\ bom_order' = KeyAdded(KeyAdded(bom_order, source.service),
                                         MonitoringThirdParty)
                /\ bom_objects' = DictSet(DictSet(bom_objects, version_info, entry),
                                         copy, entry)
           ELSE /\ bom_services' = DictSet(bom_services, source.service, version_info)
                /\ bom_repositories' = DictSet(bom_repositories, source.service, source.origin)
                /\ bom_order' = KeyAdded(bom_order, source.service)
                /\ bom_objects' = DictSet(bom_objects, version_info, entry)
    /\ last_bom' = NoBomBuild("none")
    /\ UNCHANGED <<bpc, base_bom, bom_dependencies_file>>
    /\ UNCHANGED outside_bom

\* determine_most_common_prefix lines 124-127: the prefixes of the values of
\* __repositories in the order they are first met (the keys of prefix_count).
RECURSIVE PrefixCountKeys(_, _, _)
PrefixCountKeys(order, repositories, keys) ==
    IF order = <<>> THEN keys
    ELSE PrefixCountKeys(Tail(order), repositories,
                         KeyAdded(keys, to_git_url_prefix(repositories[Head(order)])))

\* prefix_count[url_prefix]
PrefixCount(order, repositories, url_prefix) ==
    Cardinality({i \in DOMAIN order :
                    to_git_url_prefix(repositories[order[i]]) = url_prefix})

\* determine_most_common_prefix lines 128-133: the first prefix whose count
\* exceeds every count before it.
RECURSIVE MostCommonFrom(_, _, _, _, _)
MostCommonFrom(keys, order, repositories, default_prefix, max_count) ==
    IF keys = <<>> THEN default_prefix
    ELSE LET count == PrefixCount(order, repositories, Head(keys)) IN
        IF count > max_count
        THEN MostCommonFrom(Tail(keys), order, repositories, Head(keys), count)
        ELSE MostCommonFrom(Tail(keys), order, repositories, default_prefix, max_count)

\* BomBuilder.determine_most_common_prefix
determine_most_common_prefix(order, repositories) ==
    MostCommonFrom(PrefixCountKeys(order, repositories, <<>>), order, repositories, None, 0)

\* build lines 153-156
default_source_prefix(base, order, repositories) ==
    LET base_sources == Get(base, "artifactSources", EmptyDict)
        base_prefix == Get(base_sources, "gitPrefix", None)
    IN  IF Truthy(base_prefix) THEN base_prefix
        ELSE determine_most_common_prefix(order, repositories)

\* build lines 157-162: an entry whose repository has another prefix than the
\* default is given a gitPrefix, in place.
RECURSIVE MarkGitPrefix(_, _, _, _, _)
MarkGitPrefix(names, services, repositories, default_prefix, objects) ==
    IF names = <<>> THEN objects
    ELSE LET name == Head(names)
             source_prefix == to_git_url_prefix(repositories[name])
             version_info == services[name]
         IN  MarkGitPrefix(Tail(names), services, repositories, default_prefix,
                 IF source_prefix # default_prefix
                 THEN [objects EXCEPT ![version_info] =
                          DictSet(objects[version_info], "gitPrefix", source_prefix)]
                 ELSE objects)

\* build with the comparison of the build versions themselves, not of their
\* semantic-version prefixes.
same_version_exact(version, base_version) == version = base_version

\* build lines 181-183
same_version(version, base_version) == to_semver(version) = to_semver(base_version)

\* build with every added entry taken as changed.
entry_reason_always_changed(info, base_entry) == "different commit"

\* build lines 180-201: why the entry of a service is kept or replaced.
\* base_entry is services.get(name, {}).
entry_reason(info, base_entry) ==
    IF "commit" \in DOMAIN base_entry /\ info.commit = base_entry.commit
    THEN IF same_version(info.version, Get(base_entry, "version", <<>>))
         THEN "same commit"
         ELSE "different version"
    ELSE "different commit"

\* build lines 178-204: the loop over __services, from the names left.
\* services maps a service name to its entry object.
RECURSIVE UpdateServices(_, _, _, _, _)
UpdateServices(names, added, objects, services, outcomes) ==
    IF names = <<>> THEN [services |-> services, outcomes |-> outcomes]
    ELSE LET name == Head(names)
             info == objects[added[name]]
             base_entry == IF name \in DOMAIN services THEN objects[services[name]]
                           ELSE EmptyDict
             reason == entry_reason(info, base_entry)
             labels == [repostiory |-> name, branch |-> GitBranch,
                        updated |-> reason # "same commit", reason |-> reason]
         IN  UpdateServices(Tail(names), added, objects,
                            IF reason = "same commit" THEN services
                            ELSE DictSet(services, name, added[name]),
                            Append(outcomes, labels))

\* build returning the base BOM whatever has changed.
build_result_always_base(changed, base, document) == [object |-> "base", document |-> base]

\* build returning a new document whether anything has changed or not.
build_result_always_new(changed, base, document) == [object |-> "new", document |-> document]

\* build lines 212-221: the base BOM object itself, or a new document.
build_result(changed, base, document) ==
    IF changed THEN [object |-> "new", document |-> document]
    ELSE [object |-> "base", document |-> base]

\* BomBuilder.build: how the call ends, what it returns, the UpdateBomEntry
\* outcomes it counts and the entry objects after it.
bom_build(base, dependencies_file, order, added, repositories, objects) ==
    LET from_file == dependencies_file.present /\ dependencies_file.content # EmptyDict
        found == from_file \/ Get(base, "dependencies", EmptyDict) # EmptyDict
        dependencies == IF from_file THEN dependencies_file.content
                        ELSE Get(base, "dependencies", EmptyDict)
        prefix == default_source_prefix(base, order, repositories)
        marked == MarkGitPrefix(order, added, repositories, prefix, objects)
        artifact_sources == ArtifactSources(prefix)
        updated == UpdateServices(order, added, marked,
                                  Get(base, "services", EmptyDict), <<>>)
        changed ==
            \/ \E i \in DOMAIN updated.outcomes : updated.outcomes[i].updated
            \/ Get(base, "artifactSources", EmptyDict) # artifact_sources
            \/ Get(base, "dependencies", EmptyDict) # dependencies
        document == [artifactSources |-> artifact_sources,
                     dependencies |-> dependencies,
                     services |-> updated.services,
                     version |-> BuildNumber,
                     timestamp |-> NowTimestamp]
    IN  IF ~found
        THEN [raised |-> TRUE, objects |-> objects, outcomes |-> <<>>,
              result |-> [object |-> "none", document |-> EmptyDict]]
        ELSE [raised |-> FALSE, objects |-> marked, outcomes |-> updated.outcomes,
              result |-> build_result(changed, base, document)]

\* BomBuilder.build
BomBuild ==
    /\ bpc = "ready"
    /\ \E got \in {bom_build(base_bom, bom_dependencies_file, bom_order, bom_services,
                             bom_repositories, bom_objects)} :
          /\ bom_objects' = got.objects
          /\ last_bom' = [called |-> TRUE,
                          previous |-> last_bom.previous,
                          raised |-> got.raised,
                          objects_before |-> bom_objects,
                          outcomes |-> got.outcomes,
                          result |-> got.result]
    /\ bpc' = "returned"
    /\ UNCHANGED <<base_bom, bom_dependencies_file, bom_order, bom_services,
                   bom_repositories>>
    /\ UNCHANGED outside_bom

\* The caller has build's result or its error; the builder keeps what was
\* added and can be given more repositories or be built again.
BomBuildReturned ==
    /\ bpc = "returned"
    /\ bpc' = "ready"
    /\ last_bom' = NoBomBuild(last_bom.result.object)
    /\ UNCHANGED <<base_bom, bom_dependencies_file, bom_order, bom_services,
                   bom_repositories, bom_objects>>
    /\ UNCHANGED outside_bom

BomNext ==
    \/ \E source \in AddedSources : AddRepository(source)
    \/ BomBuild
    \/ BomBuildReturned

-----------------------------------------------------------------------------
(* TagBranchCommand._do_repository (source_commands.py) on one repository.  *)
(* The branch is a line of commits 1..head_commit. GitRunner and            *)
(* SemanticVersion are in git_support, of which only the tests are at hand: *)
(* they are modelled from their interface.                                  *)

MaxCommits == 3

MAJOR_INDEX == 1
MINOR_INDEX == 2
PATCH_INDEX == 3

\* int(s) for a string of decimal digits.
RECURSIVE ParseNumeral(_, _)
ParseNumeral(s, acc) ==
    IF s = <<>> THEN acc ELSE ParseNumeral(Tail(s), 10 * acc + (Head(s) - Zero))

\* SemanticVersion.make(tag): the prefix is what comes before the first
\* digit, the components are the numerals between the dots.
RECURSIVE PrefixLength(_)
PrefixLength(tag) ==
    IF tag = <<>> \/ IsDigit(Head(tag)) THEN 0 ELSE 1 + PrefixLength(Tail(tag))

semver_make(tag) ==
    LET n == PrefixLength(tag)
        parts == SplitDot(SubSeq(tag, n + 1, Len(tag)), <<>>, <<>>)
    IN  [series_name |-> SubSeq(tag, 1, n),
         major |-> ParseNumeral(parts[1], 0),
         minor |-> ParseNumeral(parts[2], 0),
         patch |-> ParseNumeral(parts[3], 0)]

\* SemanticVersion.to_tag
to_tag(semver) ==
    semver.series_name \o VersionString(semver.major, semver.minor, semver.patch)

\* SemanticVersion.next(at_index)
semver_next(semver, at_index) ==
    IF at_index = PATCH_INDEX THEN [semver EXCEPT !.patch = @ + 1]
    ELSE IF at_index = MINOR_INDEX THEN [semver EXCEPT !.minor = @ + 1, !.patch = 0]
    ELSE [semver EXCEPT !.major = @ + 1, !.minor = 0, !.patch = 0]

\* GitRunner.find_newest_tag_and_common_commit_from_id: of the tags on the
\* commits up to commit_id, the one on the newest commit, the tag made last
\* if that commit has several.
find_newest_tag_and_common_commit_from_id(tags, commit_id) ==
    LET reachable == {i \in DOMAIN tags : tags[i].commit <= commit_id}
        newest == CHOOSE i \in reachable :
                      \A j \in reachable :
                          \/ tags[j].commit < tags[i].commit
                          \/ tags[j].commit = tags[i].commit /\ j <= i
    IN  tags[newest]

\* _do_repository with the two increments exchanged.
next_index_exchanged(branch) == IF branch = "master" THEN PATCH_INDEX ELSE MINOR_INDEX

\* _do_repository lines 297-300: the component the next tag increments.
next_index(branch) == IF branch = "master" THEN MINOR_INDEX ELSE PATCH_INDEX

\* _do_repository without its early return.
already_tagged_never(latest_tag_commit_id, head_commit_id) == FALSE

\* _do_repository line 276: HEAD is the commit of the newest tag.
already_tagged(latest_tag_commit_id, head_commit_id) ==
    latest_tag_commit_id = head_commit_id

GitBranches == {"master", "release-1.2.x"}
BaseTags ==
    {to_tag([series_name |-> <<LetterV>>, major |-> 1, minor |-> minor, patch |-> patch]) :
        minor \in {2, 9}, patch \in {3, 9}}

NoTagCall == [kind |-> "none"]

TagIdle ==
    /\ tpc = "idle"
    /\ git_branch = "master"
    /\ head_commit = 1
    /\ git_tags = <<>>
    /\ pushed_tags = <<>>
    /\ last_tag_call = NoTagCall

\* A clone whose first commit carries the base version tag, with or without
\* a commit after it.
TagInit ==
    /\ tpc = "ready"
    /\ git_branch \in GitBranches
    /\ head_commit \in 1..2
    /\ \E tag \in BaseTags : git_tags = <<[tag |-> tag, commit |-> 1]>>
    /\ pushed_tags = <<>>
    /\ last_tag_call = NoTagCall

\* A commit is added to the branch between two runs of the command.
GitCommit ==
    /\ tpc = "ready"
    /\ head_commit < MaxCommits
    /\ head_commit' = head_commit + 1
    /\ UNCHANGED <<tpc, git_branch, git_tags, pushed_tags, last_tag_call>>
    /\ UNCHANGED outside_tag

\* TagBranchCommand._do_repository; push_ok is whether push_tag_to_origin
\* succeeds, tag_commit fails on a tag name that exists.
TagBranch(push_ok) ==
    /\ tpc = "ready"
    /\ LET head_commit_id == head_commit
           latest == find_newest_tag_and_common_commit_from_id(git_tags, head_commit_id)
           next_semver == semver_next(semver_make(latest.tag), next_index(git_branch))
           next_tag == to_tag(next_semver)
           call == [kind |-> "tag_branch", head |-> head_commit_id, latest |-> latest,
                    tags_before |-> git_tags, pushed_before |-> pushed_tags]
       IN  IF already_tagged(latest.commit, head_commit_id)
           THEN /\ last_tag_call' = [call EXCEPT !.kind = "skipped"]
                /\ UNCHANGED <<git_tags, pushed_tags>>
           ELSE IF \E i \in DOMAIN git_tags : git_tags[i].tag = next_tag
           THEN /\ last_tag_call' = [call EXCEPT !.kind = "raised"]
                /\ UNCHANGED <<git_tags, pushed_tags>>
           ELSE /\ git_tags' = Append(git_tags, [tag |-> next_tag, commit |-> head_commit_id])
                /\ pushed_tags' =
                       IF push_ok
                       THEN Append(pushed_tags, [tag |-> next_tag, commit |-> head_commit_id])
                       ELSE pushed_tags
                /\ last_tag_call' = [call EXCEPT !.kind = IF push_ok THEN "tagged" ELSE "raised"]
    /\ tpc' = "returned"
    /\ UNCHANGED <<git_branch, head_commit>>
    /\ UNCHANGED outside_tag

\* SemanticVersion.make(latest_tag).next(at_index), on its own.
SemverNext(at_index) ==
    /\ tpc = "ready"
    /\ LET latest == find_newest_tag_and_common_commit_from_id(git_tags, head_commit)
           semver == semver_make(latest.tag)
       IN  last_tag_call' = [kind |-> "next", semver |-> semver, at_index |-> at_index,
                             next |-> semver_next(semver, at_index)]
    /\ tpc' = "returned"
    /\ UNCHANGED <<git_branch, head_commit, git_tags, pushed_tags>>
    /\ UNCHANGED outside_tag

\* The call is over.
TagReturned ==
    /\ tpc = "returned"
    /\ tpc' = "ready"
    /\ last_tag_call' = NoTagCall
    /\ UNCHANGED <<git_branch, head_commit, git_tags, pushed_tags>>
    /\ UNCHANGED outside_tag

TagNext ==
    \/ GitCommit
    \/ \E push_ok \in BOOLEAN : TagBranch(push_ok)
    \/ \E at_index \in {MAJOR_INDEX, MINOR_INDEX, PATCH_INDEX} : SemverNext(at_index)
    \/ TagReturned

-----------------------------------------------------------------------------
(* The logging of an exception that a repository hook raises (errors.py,    *)
(* repository_command.py, command.py). An exception object is named by the  *)
(* repository whose hook raised it; what it carries is its loggedit marker, *)
(* and what is kept about it is how often its stack trace was logged and    *)
(* which layers raised it again.                                            *)

ErrorRepos == 1..MaxRepos
HookEndings == {"ok", "raise", "raise_and_log_error"}

NoException == [raised |-> FALSE, loggedit |-> FALSE, traces |-> 0, layers |-> <<>>]

\* raise SomeError(...) in a hook: the object has no loggedit attribute.
plain_raise == [NoException EXCEPT !.raised = TRUE]

\* errors.raise_and_log_error: the message is logged, the stack only at debug
\* level as format_stack, and the marker is set before the raise.
raise_and_log_error == [NoException EXCEPT !.raised = TRUE, !.loggedit = TRUE]

\* maybe_log_exception without the hasattr test.
maybe_log_exception_always(ex) ==
    [ex EXCEPT !.traces = @ + 1, !.loggedit = TRUE]

\* errors.maybe_log_exception
maybe_log_exception(ex) ==
    IF ~ex.loggedit THEN [ex EXCEPT !.traces = @ + 1, !.loggedit = TRUE] ELSE ex

\* The bare raise of an except clause: the same object goes on.
reraised_by(ex, layer) == [ex EXCEPT !.layers = Append(@, layer)]

ErrorIdle ==
    /\ epc = "idle"
    /\ raises = <<>>
    /\ stage = <<>>
    /\ exceptions = <<>>
    /\ pool_error = 0
    /\ command_raised = 0

\* __call__ has entered _do_command and the pool has its tasks.
ErrorInit ==
    /\ epc = "foreach"
    /\ raises \in [ErrorRepos -> HookEndings]
    /\ stage = [r \in ErrorRepos |-> "pending"]
    /\ exceptions = [r \in ErrorRepos |-> NoException]
    /\ pool_error = 0
    /\ command_raised = 0

\* _do_call_do_repository lines 29-39: the hook is entered.
HookEnter(r) ==
    /\ epc = "foreach"
    /\ stage[r] = "pending"
    /\ stage' = [stage EXCEPT ![r] = "hook"]
    /\ UNCHANGED <<epc, raises, exceptions, pool_error, command_raised>>
    /\ UNCHANGED outside_error

\* The hook returns, and _do_call_do_repository with it (lines 40-41), or it
\* raises into the except clause of line 42.
HookEnd(r) ==
    /\ stage[r] = "hook"
    /\ stage' = [stage EXCEPT ![r] = IF raises[r] = "ok" THEN "done" ELSE "except"]
    /\ exceptions' =
           [exceptions EXCEPT ![r] =
               IF raises[r] = "raise" THEN plain_raise
               ELSE IF raises[r] = "raise_and_log_error" THEN raise_and_log_error
               ELSE @]
    /\ UNCHANGED <<epc, raises, pool_error, command_raised>>
    /\ UNCHANGED outside_error

\* _do_call_do_repository lines 42-49; the pool keeps the first error.
RepositoryExcept(r) ==
    /\ stage[r] = "except"
    /\ exceptions' =
           [exceptions EXCEPT ![r] = reraised_by(maybe_log_exception(@), "repository")]
    /\ stage' = [stage EXCEPT ![r] = "done"]
    /\ pool_error' = IF pool_error = 0 THEN r ELSE pool_error
    /\ UNCHANGED <<epc, raises, command_raised>>
    /\ UNCHANGED outside_error

\* foreach_source_repository is over: it returns, or raises the first error.
PoolEnd ==
    /\ epc = "foreach"
    /\ \A r \in ErrorRepos : stage[r] = "done"
    /\ epc' = IF pool_error = 0 THEN "returned" ELSE "except"
    /\ UNCHANGED <<raises, stage, exceptions, pool_error, command_raised>>
    /\ UNCHANGED outside_error

\* CommandProcessor.__call__ lines 158-160
CallExcept ==
    /\ epc = "except"
    /\ exceptions' =
           [exceptions EXCEPT ![pool_error] = reraised_by(maybe_log_exception(@), "command")]
    /\ command_raised' = pool_error
    /\ epc' = "raised"
    /\ UNCHANGED <<raises, stage, pool_error>>
    /\ UNCHANGED outside_error

ErrorNext ==
    \/ \E r \in ErrorRepos : HookEnter(r) \/ HookEnd(r) \/ RepositoryExcept(r)
    \/ PoolEnd
    \/ CallExcept

-----------------------------------------------------------------------------
(* BaseMetricsRegistry.track_and_time_call called by concurrent callers     *)
(* (base_metrics.py). get_metric is the one of the registry above, run step *)
(* by step: the read of the family table, and the making and registering of *)
(* a family when the read found none.                                       *)

MaxCallers == 2
Callers == 1..MaxCallers

TrackedName == "Call"
TrackingName == "Call_InProgress"      \* tracking_name, line 399
OutcomeName == "Call_Outcome"          \* outcome_name, line 400
CallLabelSets == {[command |-> "build"], [command |-> "publish"]}

\* Where get_metric took a caller's metric from: the family the registry
\* holds, or a family of the caller's own making that no registry holds.
NoMetrics == [gauge |-> "none", timer |-> "none"]
FamilyOf(registered) == IF registered THEN "registered" ELSE "own"

\* default_determine_outcome_labels for a caller.
OutcomeLabelsOf(t) ==
    default_determine_outcome_labels(
        call_labels[t], IF call_raises[t] THEN ErrorOf(None) ELSE NoError)

RegistryIdle ==
    /\ mpc = <<>>
    /\ call_labels = <<>>
    /\ call_raises = <<>>
    /\ registry_families = <<>>
    /\ got_metric = <<>>

\* Every caller is about to call track_and_time_call; the registry is new, or
\* it has the tracking family from an earlier call.
RegistryInit ==
    /\ mpc = [t \in Callers |-> "track"]
    /\ call_labels \in [Callers -> CallLabelSets]
    /\ call_raises \in [Callers -> BOOLEAN]
    /\ registry_families \in {<<>>, TrackingName :> MakeFamily("GAUGE")}
    /\ got_metric = [t \in Callers |-> NoMetrics]

\* track_call line 336: get_metric's read of the family table, and with a
\* family found, Gauge.track's inc on its instance.
TrackCall(t) ==
    /\ mpc[t] = "track"
    /\ IF get_metric_lookup(registry_families, TrackingName)
       THEN /\ registry_families' =
                   get_metric_found(registry_families, TrackingName, call_labels[t], 1)
            /\ got_metric' = [got_metric EXCEPT ![t].gauge = "registered"]
            /\ mpc' = [mpc EXCEPT ![t] = "call"]
       ELSE /\ mpc' = [mpc EXCEPT ![t] = "track_make"]
            /\ UNCHANGED <<registry_families, got_metric>>
    /\ UNCHANGED <<call_labels, call_raises>>
    /\ UNCHANGED outside_registry

\* get_metric lines 385-389 for the gauge, then Gauge.track's inc.
TrackCallMake(t) ==
    /\ mpc[t] = "track_make"
    /\ \E got \in {get_metric_make(registry_families, "GAUGE", TrackingName,
                                   call_labels[t], 1)} :
           /\ registry_families' = got.families
           /\ got_metric' = [got_metric EXCEPT ![t].gauge = FamilyOf(got.registered)]
    /\ mpc' = [mpc EXCEPT ![t] = "call"]
    /\ UNCHANGED <<call_labels, call_raises>>
    /\ UNCHANGED outside_registry

\* time_call lines 347-358: the wrapped function returns or raises.
TimeCall(t) ==
    /\ mpc[t] = "call"
    /\ mpc' = [mpc EXCEPT ![t] = "observe"]
    /\ UNCHANGED <<call_labels, call_raises, registry_families, got_metric>>
    /\ UNCHANGED outside_registry

\* time_call's finally, lines 360-361: get_metric's read, and with a family
\* found, the observation on its instance.
ObserveTimer(t) ==
    /\ mpc[t] = "observe"
    /\ IF get_metric_lookup(registry_families, OutcomeName)
       THEN /\ registry_families' =
                   get_metric_found(registry_families, OutcomeName, OutcomeLabelsOf(t), 1)
            /\ got_metric' = [got_metric EXCEPT ![t].timer = "registered"]
            /\ mpc' = [mpc EXCEPT ![t] = "untrack"]
       ELSE /\ mpc' = [mpc EXCEPT ![t] = "observe_make"]
            /\ UNCHANGED <<registry_families, got_metric>>
    /\ UNCHANGED <<call_labels, call_raises>>
    /\ UNCHANGED outside_registry

\* get_metric lines 385-389 for the timer, then the observation.
ObserveTimerMake(t) ==
    /\ mpc[t] = "observe_make"
    /\ \E got \in {get_metric_make(registry_families, "TIMER", OutcomeName,
                                   OutcomeLabelsOf(t), 1)} :
           /\ registry_families' = got.families
           /\ got_metric' = [got_metric EXCEPT ![t].timer = FamilyOf(got.registered)]
    /\ mpc' = [mpc EXCEPT ![t] = "untrack"]
    /\ UNCHANGED <<call_labels, call_raises>>
    /\ UNCHANGED outside_registry

\* Gauge.track's finally, line 99: dec on the gauge the caller incremented.
UntrackCall(t) ==
    /\ mpc[t] = "untrack"
    /\ registry_families' =
           IF got_metric[t].gauge = "registered"
           THEN get_metric_found(registry_families, TrackingName, call_labels[t], -1)
           ELSE registry_families
    /\ mpc' = [mpc EXCEPT ![t] = "done"]
    /\ UNCHANGED <<call_labels, call_raises, got_metric>>
    /\ UNCHANGED outside_registry

RegistryNext ==
    \E t \in Callers :
        \/ TrackCall(t)
        \/ TrackCallMake(t)
        \/ TimeCall(t)
        \/ ObserveTimer(t)
        \/ ObserveTimerMake(t)
        \/ UntrackCall(t)

-----------------------------------------------------------------------------
(* The pending updates of the registry and their flushing (base_metrics.py  *)
(* and MetricsManager.shutdown_metrics, metrics.py): updating threads call  *)
(* queue_update, the pusher thread runs flush_every_loop, the main thread   *)
(* runs shutdown_metrics.                                                   *)

MaxUpdates == 3
Metrics == {"counter", "gauge"}

NoThread == "None"
PusherThread == "MetricsManager"

\* The sum of queued over the metrics.
RECURSIVE TotalOf(_, _)
TotalOf(counts, metrics) ==
    IF metrics = {} THEN 0
    ELSE LET m == CHOOSE x \in metrics : TRUE IN
             counts[m] + TotalOf(counts, metrics \ {m})

\* queue_update, lines 305-308, under __update_mutex.
queue_update(pending, metric) == pending \cup {metric}

\* flush_updated_metrics with the pending set left as it is.
flush_take_and_keep(pending) == [taken |-> pending, left |-> pending]

\* flush_updated_metrics lines 480-482, under __update_mutex: the pending set
\* is taken and an empty one put in its place.
flush_take(pending) == [taken |-> pending, left |-> {}]

\* delay_func returning true whatever __pusher_thread is.
delay_func_ready_always(the_thread) == TRUE

\* delay_func line 425: return self.__pusher_thread is not None
delay_func_ready(the_thread) == the_thread # NoThread

\* What a flush that takes the pending set notes for each metric in it.
Drained(taken) ==
    [m \in Metrics |-> IF m \in taken THEN Append(drains[m], queued[m]) ELSE drains[m]]

PusherIdle ==
    /\ ppc = "idle"
    /\ monitoring_enabled = FALSE
    /\ pusher_thread = NoThread
    /\ pusher_thread_event = FALSE
    /\ loop = [pc |-> "none", woken_by_event |-> FALSE]
    /\ updated_metrics = {}
    /\ queued = [m \in Metrics |-> 0]
    /\ drains = [m \in Metrics |-> <<>>]
    /\ holding = [pusher |-> {}, main |-> {}]

\* After MetricsManager.startup_metrics: the pusher thread has been started if
\* monitoring is enabled and the flush frequency is positive.
PusherInit ==
    /\ ppc = "running"
    /\ monitoring_enabled \in BOOLEAN
    /\ \E frequency_positive \in BOOLEAN :
           IF monitoring_enabled /\ frequency_positive
           THEN pusher_thread = PusherThread /\ loop = [pc |-> "delay", woken_by_event |-> FALSE]
           ELSE pusher_thread = NoThread /\ loop = [pc |-> "none", woken_by_event |-> FALSE]
    /\ pusher_thread_event = FALSE
    /\ updated_metrics = {}
    /\ queued = [m \in Metrics |-> 0]
    /\ drains = [m \in Metrics |-> <<>>]
    /\ holding = [pusher |-> {}, main |-> {}]

\* Metric.touch by some thread: queue_update(metric).
QueueUpdate(metric) ==
    /\ ppc # "idle"
    /\ TotalOf(queued, Metrics) < MaxUpdates
    /\ updated_metrics' = queue_update(updated_metrics, metric)
    /\ queued' = [queued EXCEPT ![metric] = @ + 1]
    /\ UNCHANGED <<ppc, monitoring_enabled, pusher_thread, pusher_thread_event, loop,
                   drains, holding>>
    /\ UNCHANGED outside_pusher

\* delay_func line 421: if self.__pusher_thread
DelayFunc ==
    /\ loop.pc = "delay"
    /\ loop' = [loop EXCEPT !.pc = IF pusher_thread # NoThread THEN "waiting" ELSE "ready"]
    /\ UNCHANGED <<ppc, monitoring_enabled, pusher_thread, pusher_thread_event,
                   updated_metrics, queued, drains, holding>>
    /\ UNCHANGED outside_pusher

\* delay_func lines 422-424: the wait on the event returns, because the event
\* is set or because monitoring_flush_frequency seconds are over.
DelayWake ==
    /\ loop.pc = "waiting"
    /\ loop' = [pc |-> "ready", woken_by_event |-> pusher_thread_event]
    /\ UNCHANGED <<ppc, monitoring_enabled, pusher_thread, pusher_thread_event,
                   updated_metrics, queued, drains, holding>>
    /\ UNCHANGED outside_pusher

\* delay_func line 425 and flush_every_loop line 451: while ready_func()
LoopReady ==
    /\ loop.pc = "ready"
    /\ loop' = [pc |-> IF delay_func_ready(pusher_thread) THEN "flush" ELSE "ended",
                woken_by_event |-> FALSE]
    /\ UNCHANGED <<ppc, monitoring_enabled, pusher_thread, pusher_thread_event,
                   updated_metrics, queued, drains, holding>>
    /\ UNCHANGED outside_pusher

\* flush_updated_metrics lines 476-482 on the pusher thread.
LoopTake ==
    /\ loop.pc = "flush"
    /\ IF monitoring_enabled
       THEN \E got \in {flush_take(updated_metrics)} :
                /\ holding' = [holding EXCEPT !.pusher = got.taken]
                /\ updated_metrics' = got.left
                /\ drains' = Drained(got.taken)
                /\ loop' = [loop EXCEPT !.pc = "processing"]
       ELSE /\ loop' = [loop EXCEPT !.pc = "delay"]
            /\ UNCHANGED <<holding, updated_metrics, drains>>
    /\ UNCHANGED <<ppc, monitoring_enabled, pusher_thread, pusher_thread_event, queued>>
    /\ UNCHANGED outside_pusher

\* flush_updated_metrics line 483 on the pusher thread:
\* _do_flush_updated_metrics(updated_metrics), outside the mutex.
LoopProcess ==
    /\ loop.pc = "processing"
    /\ holding' = [holding EXCEPT !.pusher = {}]
    /\ loop' = [loop EXCEPT !.pc = "delay"]
    /\ UNCHANGED <<ppc, monitoring_enabled, pusher_thread, pusher_thread_event,
                   updated_metrics, queued, drains>>
    /\ UNCHANGED outside_pusher

\* stop_pusher_thread lines 439-440
StopPusherThread ==
    /\ ppc = "running"
    /\ pusher_thread' = NoThread
    /\ ppc' = IF pusher_thread # NoThread THEN "signal_then_join" ELSE "signal"
    /\ UNCHANGED <<monitoring_enabled, pusher_thread_event, loop, updated_metrics,
                   queued, drains, holding>>
    /\ UNCHANGED outside_pusher

\* stop_pusher_thread line 441
StopSignal ==
    /\ ppc \in {"signal", "signal_then_join"}
    /\ pusher_thread_event' = TRUE
    /\ ppc' = IF ppc = "signal_then_join" THEN "join" ELSE "stopped"
    /\ UNCHANGED <<monitoring_enabled, pusher_thread, loop, updated_metrics, queued,
                   drains, holding>>
    /\ UNCHANGED outside_pusher

\* stop_pusher_thread lines 445-446: join(2) returns when the thread has
\* ended or when two seconds are over.
StopJoin ==
    /\ ppc = "join"
    /\ ppc' = "stopped"
    /\ UNCHANGED <<monitoring_enabled, pusher_thread, pusher_thread_event, loop,
                   updated_metrics, queued, drains, holding>>
    /\ UNCHANGED outside_pusher

\* shutdown_metrics line 92: flush_updated_metrics on the main thread, up to
\* the release of the mutex.
ShutdownTake ==
    /\ ppc = "stopped"
    /\ IF monitoring_enabled
       THEN \E got \in {flush_take(updated_metrics)} :
                /\ holding' = [holding EXCEPT !.main = got.taken]
                /\ updated_metrics' = got.left
                /\ drains' = Drained(got.taken)
                /\ ppc' = "processing"
       ELSE /\ ppc' = "done"
            /\ UNCHANGED <<holding, updated_metrics, drains>>
    /\ UNCHANGED <<monitoring_enabled, pusher_thread, pusher_thread_event, loop, queued>>
    /\ UNCHANGED outside_pusher

\* _do_flush_updated_metrics on the main thread, then flush_final_metrics.
ShutdownProcess ==
    /\ ppc = "processing"
    /\ holding' = [holding EXCEPT !.main = {}]
    /\ ppc' = "done"
    /\ UNCHANGED <<monitoring_enabled, pusher_thread, pusher_thread_event, loop,
                   updated_metrics, queued, drains>>
    /\ UNCHANGED outside_pusher

\* The steps of the pusher thread, and those of the main thread.
LoopStep == DelayFunc \/ DelayWake \/ LoopReady \/ LoopTake \/ LoopProcess
MainStep == StopPusherThread \/ StopSignal \/ StopJoin \/ ShutdownTake \/ ShutdownProcess

PusherNext ==
    \/ \E metric \in Metrics : QueueUpdate(metric)
    \/ LoopStep
    \/ MainStep

-----------------------------------------------------------------------------
(* PublishSpinnakerCommand.push_branches_and_tags (spinnaker_commands.py).  *)
(* The git repositories are known by where the version tag of each is:      *)
(* "absent", "here" (at the local commit), "elsewhere" (at another commit)  *)
(* or "created" (made by this call).                                        *)

MaxServices == 3

ServiceNames == <<"clouddriver", "monitoring-daemon", "monitoring-third-party", "echo">>

BomServices == SubSeq(ServiceNames, 1, IF MaxServices < 4 THEN MaxServices ELSE 4)

NoName == "None"

\* Lines 324-335: the repository the BOM service stands for, NoName if the
\* loop skips it.
publish_repository_name(name, spec_is_none, only) ==
    IF name \in {"monitoring-third-party", "defaultArtifact"} THEN NoName
    ELSE LET renamed == IF name = "monitoring-daemon" THEN "spinnaker-monitoring" ELSE name IN
             IF only # <<>> /\ ~(\E i \in 1..Len(only) : only[i] = renamed) THEN NoName
             ELSE IF spec_is_none THEN NoName
             ELSE renamed

RepositoryNames ==
    {IF BomServices[i] = "monitoring-daemon" THEN "spinnaker-monitoring" ELSE BomServices[i] :
        i \in 1..Len(BomServices)}

\* __already_have_tag, lines 350-368: "raise" stands for the ConfigError.
already_have_tag(tag_is) ==
    IF tag_is = "absent" THEN "no"
    ELSE IF tag_is \in {"here", "created"} THEN "yes"
    ELSE "raise"

\* The push pass pushing the tag whatever the tagging pass added.
also_tag_always(name, names) == TRUE

\* Line 346: name in names_to_push
also_tag(name, names) == name \in names

NothingPushed == [branches |-> {}, tags |-> {}]

PublishIdle ==
    /\ which = "idle"
    /\ service_at = 0
    /\ publish_bom = <<>>
    /\ publish_only = <<>>
    /\ version_tags = [r \in RepositoryNames |-> "absent"]
    /\ names_to_push = {}
    /\ origin = NothingPushed

\* The call begins: names_to_push = set([]), for which in ["tag", "push"].
PublishInit ==
    /\ which = "tag"
    /\ service_at = 1
    /\ \E none \in {0} \cup (1..Len(BomServices)) :
           publish_bom = [i \in 1..Len(BomServices) |->
                              [name |-> BomServices[i], spec_is_none |-> (i = none)]]
    /\ publish_only \in {<<>>, <<"clouddriver">>, <<"spinnaker-monitoring", "echo">>,
                         <<"monitoring-daemon">>}
    /\ version_tags \in [RepositoryNames -> {"absent", "here", "elsewhere"}]
    /\ names_to_push = {}
    /\ origin = NothingPushed

\* The repository of the service the pass is at.
ServiceRepository ==
    publish_repository_name(publish_bom[service_at].name,
                            publish_bom[service_at].spec_is_none, publish_only)

\* The end of one pass of the loop over bom["services"].
AfterService ==
    IF service_at < Len(publish_bom)
    THEN which' = which /\ service_at' = service_at + 1
    ELSE /\ which' = IF which = "tag" THEN "push" ELSE "returned"
         /\ service_at' = IF which = "tag" THEN 1 ELSE 0

\* Lines 323-335: a service that the loop skips, in either pass.
SkipService ==
    /\ which \in {"tag", "push"}
    /\ ServiceRepository = NoName
    /\ AfterService
    /\ UNCHANGED <<publish_bom, publish_only, version_tags, names_to_push, origin>>
    /\ UNCHANGED outside_publish

\* Lines 337-344 and __branch_and_tag_repository, lines 370-377.
TagService ==
    /\ which = "tag"
    /\ ServiceRepository # NoName
    /\ LET name == ServiceRepository
           have == already_have_tag(version_tags[name]) IN
           IF have = "raise"
           THEN /\ which' = "raised_in_tag"
                /\ service_at' = service_at
                /\ UNCHANGED <<version_tags, names_to_push>>
           ELSE /\ AfterService
                /\ version_tags' = IF have = "no" THEN [version_tags EXCEPT ![name] = "created"]
                                   ELSE version_tags
                /\ names_to_push' = IF have = "no" THEN names_to_push \cup {name}
                                    ELSE names_to_push
    /\ UNCHANGED <<publish_bom, publish_only, origin>>
    /\ UNCHANGED outside_publish

\* Lines 345-348 and __push_branch_and_maybe_tag_repository, lines 379-390;
\* either push may fail, which ends the call.
PushService(branch_ok, tag_ok) ==
    /\ which = "push"
    /\ ServiceRepository # NoName
    /\ LET name == ServiceRepository
           with_tag == also_tag(name, names_to_push) IN
           /\ origin' = [branches |-> IF branch_ok THEN origin.branches \cup {name}
                                      ELSE origin.branches,
                         tags |-> IF branch_ok /\ with_tag /\ tag_ok
                                  THEN origin.tags \cup {name} ELSE origin.tags]
           /\ IF branch_ok /\ (with_tag => tag_ok)
              THEN AfterService
              ELSE which' = "raised_in_push" /\ service_at' = service_at
    /\ UNCHANGED <<publish_bom, publish_only, version_tags, names_to_push>>
    /\ UNCHANGED outside_publish

PublishNext ==
    \/ SkipService
    \/ TagService
    \/ \E branch_ok, tag_ok \in BOOLEAN : PushService(branch_ok, tag_ok)

-----------------------------------------------------------------------------
(* ChangelogRepositoryData.partition_commits (changelog_commands.py). A     *)
(* commit message is the sequence of its lines, a line the sequence of      *)
(* its tokens: a word, a blank, a punctuation mark, or the phrase BREAKING  *)
(* CHANGE. normalized_messages is a list of messages; a message in a        *)
(* partition is named by its position in that list, since two commits can   *)
(* have the same text.                                                      *)

Blank == " "
Bullet == "*"
BreakingChange == "BREAKING CHANGE"
Punctuation == {Blank, Bullet, ":", "(", ")", "-"}

\* The line with its leading whitespace removed: what \s* skips.
RECURSIVE SkipBlanks(_)
SkipBlanks(line) ==
    IF line # <<>> /\ Head(line) = Blank THEN SkipBlanks(Tail(line)) ELSE line

\* ((?:type|...)[\(:].*) at the start of what is left of a line.
StartsWithType(rest, types) ==
    Len(rest) >= 2 /\ rest[1] \in types /\ rest[2] \in {"(", ":"}

\* ^\s*(?:\*\s+)?((?:type|...)[\(:].*) on one line.
LineHasType(line, types) ==
    LET rest == SkipBlanks(line) IN
        \/ StartsWithType(rest, types)
        \/ /\ Len(rest) >= 2
           /\ rest[1] = Bullet
           /\ rest[2] = Blank
           /\ StartsWithType(SkipBlanks(Tail(rest)), types)

\* regex.search(text) with re.MULTILINE: ^ is the start of any line.
SearchType(text, types) == \E i \in DOMAIN text : LineHasType(text[i], types)

\* ^\s*(.*?BREAKING CHANGE.*): the phrase is somewhere on some line.
SearchBreaking(text) == \E i \in DOMAIN text : InList(BreakingChange, text[i])

\* partition_types, lines 91-113: the sections in order of significance.
partition_types == <<"Breaking Changes", "Features", "Configuration", "Fixes", "Other">>

\* Whether the regex of a section finds a match in the text.
SectionMatches(section, text) ==
    CASE section = "Breaking Changes" -> SearchBreaking(text)
      [] section = "Features" -> SearchType(text, {"feat", "feature"})
      [] section = "Configuration" -> SearchType(text, {"config"})
      [] section = "Fixes" -> SearchType(text, {"bug", "fix"})
      [] section = "Other" -> TRUE

\* The inner loop of partition_commits without its break: the last section
\* whose regex matches.
section_of_last_match(text) ==
    partition_types[CHOOSE i \in DOMAIN partition_types :
        /\ SectionMatches(partition_types[i], text)
        /\ \A j \in DOMAIN partition_types :
               j > i => ~SectionMatches(partition_types[j], text)]

\* partition_commits lines 118-124: the first section whose regex matches.
RECURSIVE FirstSectionFrom(_, _)
FirstSectionFrom(text, index) ==
    IF SectionMatches(partition_types[index], text) THEN partition_types[index]
    ELSE FirstSectionFrom(text, index + 1)
section_of(text) == FirstSectionFrom(text, 1)

\* workspace[section]: the messages of a section, in the order of the list.
Workspace(messages, section) ==
    SelectSeq([i \in DOMAIN messages |-> i], LAMBDA i : section_of(messages[i]) = section)

\* TITLE_LINE_MATCHER.match(title_line).group(1), or '' without a match:
\* \W*\w+\(([^\)]+)\) at the start of the line. The thing is the sequence of
\* tokens between the parentheses.
RECURSIVE SkipPunctuation(_)
SkipPunctuation(line) ==
    IF line # <<>> /\ Head(line) \in Punctuation THEN SkipPunctuation(Tail(line)) ELSE line

RECURSIVE UpToParenthesis(_)
UpToParenthesis(tokens) ==
    IF tokens = <<>> \/ Head(tokens) = ")" THEN <<>>
    ELSE <<Head(tokens)>> \o UpToParenthesis(Tail(tokens))

thing_of(title_line) ==
    LET rest == SkipPunctuation(title_line) IN
        IF /\ Len(rest) >= 4
           /\ rest[1] # BreakingChange
           /\ rest[2] = "("
           /\ rest[3] # ")"
           /\ InList(")", SubSeq(rest, 3, Len(rest)))
        THEN UpToParenthesis(SubSeq(rest, 3, Len(rest)))
        ELSE <<>>

\* The things of the model in the order of sorted(): '' first.
ThingOrder == << <<>>, <<"a">>, <<"b">> >>

\* _sort_partition returning the messages as they came.
sort_partition_as_given(messages, commit_messages) == commit_messages

\* _sort_partition: the messages bucket by bucket, the buckets in the sorted
\* order of their things, each bucket in the order of the list.
RECURSIVE SortFrom(_, _, _)
SortFrom(messages, commit_messages, index) ==
    IF index > Len(ThingOrder) THEN <<>>
    ELSE SelectSeq(commit_messages,
                   LAMBDA i : thing_of(messages[i][1]) = ThingOrder[index])
         \o SortFrom(messages, commit_messages, index + 1)
sort_partition(messages, commit_messages) == SortFrom(messages, commit_messages, 1)

\* partition_commits lines 126-133: the sections that have messages, in the
\* order of partition_types.
RECURSIVE ResultFrom(_, _, _)
ResultFrom(messages, sort, index) ==
    IF index > Len(partition_types) THEN <<>>
    ELSE LET key == partition_types[index]
             found == Workspace(messages, key)
         IN  (IF found = <<>> THEN <<>>
              ELSE <<[key |-> key,
                      messages |-> IF sort THEN sort_partition(messages, found)
                                   ELSE found]>>)
             \o ResultFrom(messages, sort, index + 1)

\* ChangelogRepositoryData.partition_commits
partition_commits(messages, sort) == ResultFrom(messages, sort, 1)

\* The title lines of the model: a type, then a colon or a thing in
\* parentheses and a colon.
TitleTypes == {"fix", "feat", "config", "chore"}
TitleScopes == {<<":">>, <<"(", "a", ")", ":">>, <<"(", "b", ")", ":">>}
TitleLines == {<<type>> \o scope : type \in TitleTypes, scope \in TitleScopes}

\* The commit messages of the model: a title alone, and messages that differ
\* from that in one respect each.
CommitMessages ==
    {<<title>> : title \in TitleLines}
    \cup {<< <<Bullet, Blank, "fix", ":">> >>,
          << <<Bullet, "fix", ":">> >>,
          << <<Blank, "feat", "(", "b", ")", ":">> >>,
          << <<"bug", "(", "a", ")", ":">> >>,
          << <<"fix", Blank, "w">> >>,
          << <<"w">> >>,
          << <<>> >>,
          << <<"feat", ":", Blank, BreakingChange>> >>,
          << <<"fix", "(", "a", ")", ":">>, <<>>, <<BreakingChange, ":", Blank, "w">> >>,
          << <<"chore", "(", "a", ")", ":">>, <<>>, <<Bullet, Blank, "feat", ":">> >>,
          << <<"fix", ":">>, <<"config", ":">> >>}

MaxMessages == 2

NormalizedMessages ==
    UNION {[1..n -> CommitMessages] : n \in 0..MaxMessages}

NoPartition == [called |-> FALSE]

ChangelogIdle ==
    /\ lpc = "idle"
    /\ normalized_messages = <<>>
    /\ last_partition = NoPartition

\* ChangelogRepositoryData(repository, summary, normalized_messages)
ChangelogInit ==
    /\ lpc = "ready"
    /\ normalized_messages \in NormalizedMessages
    /\ last_partition = NoPartition

\* entry.partition_commits(sort=...)
PartitionCommits(sort) ==
    /\ lpc = "ready"
    /\ \E got \in {partition_commits(normalized_messages, sort)} :
           last_partition' = [called |-> TRUE, sort |-> sort, result |-> got]
    /\ lpc' = "returned"
    /\ UNCHANGED normalized_messages
    /\ UNCHANGED outside_changelog

\* The caller is done with the result; the tuple is as it was.
PartitionReturned ==
    /\ lpc = "returned"
    /\ lpc' = "ready"
    /\ last_partition' = NoPartition
    /\ UNCHANGED normalized_messages
    /\ UNCHANGED outside_changelog

ChangelogNext ==
    \/ \E sort \in BOOLEAN : PartitionCommits(sort)
    \/ PartitionReturned

-----------------------------------------------------------------------------
(* Specifications. *)

\* A command invocation alone.
CommandProcessorInit ==
    CommandInit /\ VersionsIdle /\ BomIdle /\ ChangelogIdle /\ TagIdle
    /\ ErrorIdle /\ RegistryIdle /\ PusherIdle /\ PublishIdle

SpecCommand == CommandProcessorInit /\ [][CommandNext]_vars

FilterNext == ProcessorInit \/ SourceRepositories

\* A processor under construction alone.
FilterProcessorInit ==
    FilterInit /\ CommandIdle /\ VersionsIdle /\ BomIdle /\ ChangelogIdle
    /\ TagIdle /\ ErrorIdle /\ RegistryIdle /\ PusherIdle /\ PublishIdle

SpecFilter == FilterProcessorInit /\ [][FilterNext]_vars

\* A versions builder alone: no repository command is under way.
VersionsBuilderInit ==
    VersionsInit /\ FilterIdle /\ CommandIdle /\ BomIdle /\ ChangelogIdle
    /\ TagIdle /\ ErrorIdle /\ RegistryIdle /\ PusherIdle /\ PublishIdle

SpecVersions == VersionsBuilderInit /\ [][VersionsNext]_vars

\* A BOM builder alone.
BomBuilderInit ==
    BomInit /\ FilterIdle /\ CommandIdle /\ VersionsIdle /\ ChangelogIdle
    /\ TagIdle /\ ErrorIdle /\ RegistryIdle /\ PusherIdle /\ PublishIdle

SpecBom == BomBuilderInit /\ [][BomNext]_vars

\* The commits of one repository alone.
ChangelogDataInit ==
    ChangelogInit /\ FilterIdle /\ CommandIdle /\ VersionsIdle /\ BomIdle
    /\ TagIdle /\ ErrorIdle /\ RegistryIdle /\ PusherIdle /\ PublishIdle

SpecChangelog == ChangelogDataInit /\ [][ChangelogNext]_vars

\* The tagging of one repository alone.
TagBranchInit ==
    TagInit /\ FilterIdle /\ CommandIdle /\ BomIdle /\ ChangelogIdle
    /\ VersionsIdle /\ ErrorIdle /\ RegistryIdle /\ PusherIdle
    /\ PublishIdle

SpecTagBranch == TagBranchInit /\ [][TagNext]_vars

\* An exception on its way alone.
ErrorPropagationInit ==
    ErrorInit /\ FilterIdle /\ CommandIdle /\ BomIdle /\ ChangelogIdle
    /\ TagIdle /\ VersionsIdle /\ RegistryIdle /\ PusherIdle /\ PublishIdle

SpecErrors == ErrorPropagationInit /\ [][ErrorNext]_vars

\* Concurrent tracked calls alone.
TrackedCallsInit ==
    RegistryInit /\ FilterIdle /\ CommandIdle /\ BomIdle /\ ChangelogIdle
    /\ TagIdle /\ VersionsIdle /\ ErrorIdle /\ PusherIdle /\ PublishIdle

SpecRegistry == TrackedCallsInit /\ [][RegistryNext]_vars

\* The pending updates and the pusher thread alone.
PusherRegistryInit ==
    PusherInit /\ FilterIdle /\ CommandIdle /\ BomIdle /\ ChangelogIdle
    /\ ErrorIdle /\ RegistryIdle /\ TagIdle /\ VersionsIdle /\ PublishIdle

SpecPusher == PusherRegistryInit /\ [][PusherNext]_vars

\* The same with threads that are not held up for ever: the pusher thread
\* takes its next step, and so does the main thread once it has begun to stop
\* the pusher.
SpecPusherFair ==
    /\ PusherRegistryInit
    /\ [][PusherNext]_vars
    /\ WF_vars(LoopStep)
    /\ WF_vars(StopSignal \/ StopJoin)

\* push_branches_and_tags alone.
PushBranchesAndTagsInit ==
    PublishInit /\ FilterIdle /\ CommandIdle /\ BomIdle /\ ChangelogIdle
    /\ ErrorIdle /\ PusherIdle /\ RegistryIdle /\ TagIdle /\ VersionsIdle

SpecPublish == PushBranchesAndTagsInit /\ [][PublishNext]_vars

Init ==
    \/ FilterProcessorInit
    \/ CommandProcessorInit
    \/ VersionsBuilderInit
    \/ BomBuilderInit
    \/ ChangelogDataInit
    \/ TagBranchInit
    \/ ErrorPropagationInit
    \/ TrackedCallsInit
    \/ PusherRegistryInit
    \/ PushBranchesAndTagsInit
Next ==
    \/ FilterNext
    \/ CommandNext
    \/ VersionsNext
    \/ BomNext
    \/ ChangelogNext
    \/ TagNext
    \/ ErrorNext
    \/ RegistryNext
    \/ PusherNext
    \/ PublishNext
Spec == Init /\ [][Next]_vars

-----------------------------------------------------------------------------
(* C1 *)

\* The candidate names the processor starts from.
CandidateNames ==
    IF TruthyNames(source_repository_names) THEN source_repository_names
    ELSE [i \in DOMAIN scm_repositories |-> scm_repositories[i].name]

AllowGiven == Truthy(options.only_repositories)
DenyGiven == Truthy(options.exclude_repositories)
AllowSet == IF AllowGiven
            THEN {Split(options.only_repositories)[i] :
                     i \in DOMAIN Split(options.only_repositories)}
            ELSE {}
DenySet == IF DenyGiven
           THEN {Split(options.exclude_repositories)[i] :
                    i \in DOMAIN Split(options.exclude_repositories)}
           ELSE {}

\* The names the claim keeps.
KeptName(n) == (AllowGiven => n \in AllowSet) /\ n \notin DenySet

ResolvedNames == [i \in DOMAIN got_repositories |-> got_repositories[i].name]

\* C1: the resolved source_repositories are exactly the candidates, in their
\* original order, whose name is in the allow-list (when one is given) and not
\* in the deny-list; a name in both lists is never kept; a deny-list alone
\* removes only the denied names; with neither option the list is unchanged.
C1_FilterExact ==
    fpc = "resolved" =>
        /\ \A i \in DOMAIN ResolvedNames : KeptName(ResolvedNames[i])
        /\ \A i \in DOMAIN CandidateNames :
              KeptName(CandidateNames[i]) => InList(CandidateNames[i], ResolvedNames)
        /\ \A i, j \in DOMAIN ResolvedNames :
              i < j => \E k, l \in DOMAIN CandidateNames :
                          /\ k < l
                          /\ CandidateNames[k] = ResolvedNames[i]
                          /\ CandidateNames[l] = ResolvedNames[j]
        /\ Len(ResolvedNames) <= Len(CandidateNames)
        /\ \A n \in AllowSet \cap DenySet : ~InList(n, ResolvedNames)
        /\ (~AllowGiven /\ DenyGiven) =>
              \A i \in DOMAIN CandidateNames :
                  CandidateNames[i] \notin DenySet
                      => InList(CandidateNames[i], ResolvedNames)
        /\ (~AllowGiven /\ ~DenyGiven) => ResolvedNames = CandidateNames

\* An allow-list and a deny-list that overlap, on candidates of which one is
\* kept and one is dropped because it is in both lists.
C1_Witness ==
    /\ fpc = "resolved"
    /\ AllowGiven /\ DenyGiven
    /\ \E i \in DOMAIN CandidateNames :
          CandidateNames[i] \in AllowSet \cap DenySet
    /\ Len(ResolvedNames) = 1
    /\ Len(CandidateNames) = 2

-----------------------------------------------------------------------------
(* C2 *)

\* The repository's _do_repository_wrapper has returned or raised.
WrapperEnded(r) == rpc[r] \in {"observe", "observe_make", "untrack", "done"}

\* C2: per repository the skip check runs first; a skippable repository has
\* its SkipRepositoryCommand counter incremented (inc_counter called once), a
\* null result, and neither ensure_local_repository nor _do_repository called;
\* any other has ensure_local_repository called exactly once, returned before
\* _do_repository is called exactly once, and _do_repository's value as result.
C2_SkipThenEnsureThenWork ==
    \A r \in Repos :
        /\ calls.skip_check[r] <= 1
        /\ (calls.skip_inc[r] + calls.ensure[r] + calls.work[r] > 0)
              => calls.skip_check[r] = 1
        /\ hook[r] = "skip" =>
              /\ calls.ensure[r] = 0 /\ calls.work[r] = 0
              /\ calls.skip_inc[r] <= 1
              /\ WrapperEnded(r) =>
                    calls.skip_inc[r] = 1 /\ task[r].result = Null
        /\ hook[r] # "skip" =>
              /\ calls.skip_inc[r] = 0
              /\ calls.ensure[r] <= 1
              /\ calls.work[r] <= calls.ensure[r]
              /\ rpc[r] = "ensure" => calls.work[r] = 0
              /\ WrapperEnded(r) => calls.ensure[r] = 1 /\ calls.work[r] = 1
              /\ (WrapperEnded(r) /\ hook[r] = "ok") => task[r].result = ValueOf(r)

\* One repository was skipped and another one worked on, both to the end.
C2_Witness ==
    \E r, q \in Repos :
        /\ hook[r] = "skip" /\ WrapperEnded(r) /\ task[r].result = Null
        /\ hook[q] = "ok" /\ WrapperEnded(q) /\ calls.work[q] = 1

-----------------------------------------------------------------------------
(* C3 *)

CommandEnded == cpc \in {"returned", "raised"}
SomeTaskRaised == \E r \in Repos : task[r].error # NoError

-----------------------------------------------------------------------------
(* C4 *)

\* C4: if the unit of work of a repository raises, the invocation raises that
\* error (the first one raised when several do), _do_postprocess is never
\* called, and no result mapping is returned, whatever other repositories
\* completed.
C4_FailureFailsAll ==
    SomeTaskRaised =>
        /\ calls.postprocess = 0
        /\ cpc # "returned"
        /\ command_result.kind # "returned"
        /\ CommandEnded =>
              /\ command_result.kind = "raised"
              /\ \E r \in Repos : command_result.error = task[r].error
              /\ command_result.error # NoError

\* The invocation raised although another repository completed with a value.
C4_Witness ==
    /\ cpc = "raised"
    /\ \E r, q \in Repos :
          /\ task[r].error = ErrorOf(r)
          /\ command_result.error = ErrorOf(r)
          /\ task[q].result = ValueOf(q)

-----------------------------------------------------------------------------
(* C5 *)

\* The invocation is at or past the point where it raises to its caller.
Raising == first_error # NoError /\ cpc \in {"observe", "untrack", "raised"}
Concurrent == scm_max_threads > 1

-----------------------------------------------------------------------------
(* C6 *)

Instances(name) ==
    IF name \in DOMAIN metric_families
    THEN DOMAIN metric_families[name].instances ELSE {}

\* C6: after an invocation the registered RunCommand_Outcome timer family
\* holds exactly one instance, with count 1, and the registered
\* RunRepositoryCommand_Outcome family holds for every processed repository
\* exactly one instance with count 1; success tells whether the wrapped call
\* returned, and exception_type names the type of what it raised.
C6_OutcomeTimers ==
    CommandEnded =>
        /\ Instances("RunCommand_Outcome") =
              {[command |-> CommandName,
                success |-> cpc = "returned",
                exception_type |-> IF cpc = "returned" THEN "" ELSE "ValueError"]}
        /\ \A l \in Instances("RunCommand_Outcome") :
              metric_families["RunCommand_Outcome"].instances[l] = 1
        /\ metric_families["RunCommand_Outcome"].family_type = "TIMER"
        /\ Instances("RunRepositoryCommand_Outcome") =
              {[command |-> CommandName,
                repository |-> r,
                success |-> hook[r] # "raise",
                exception_type |-> IF hook[r] = "raise" THEN "ValueError" ELSE ""] :
                 r \in Repos}
        /\ \A l \in Instances("RunRepositoryCommand_Outcome") :
              metric_families["RunRepositoryCommand_Outcome"].instances[l] = 1

-----------------------------------------------------------------------------
(* C7 *)

Working == {r \in DOMAIN rpc : rpc[r] = "working"}

\* C7: with one_at_a_time the source code manager gets a maximum concurrency
\* of exactly 1, no two work hooks are in progress at the same time and all
\* hooks run on one thread; without it the maximum concurrency is the
\* configured max_threads, 64 by default.
C7_OneAtATime ==
    fpc # "new" =>
        /\ one_at_a_time =>
              /\ scm_max_threads = 1
              /\ Cardinality(Working) <= 1
              /\ \A r, q \in DOMAIN task :
                    (task[r].hook_thread # 0 /\ task[q].hook_thread # 0)
                        => task[r].hook_thread = task[q].hook_thread
        /\ ~one_at_a_time =>
              /\ max_threads_kwarg = {} => scm_max_threads = 64
              /\ \A n \in max_threads_kwarg : scm_max_threads = n

\* Without one_at_a_time, two work hooks are in progress at the same time on
\* different threads.
C7_Witness ==
    /\ ~one_at_a_time
    /\ \E r, q \in Working : task[r].hook_thread # task[q].hook_thread

\* With one_at_a_time, two work hooks have run, one after the other.
C7_SerialWitness ==
    /\ one_at_a_time
    /\ \E r, q \in DOMAIN task :
          r # q /\ task[r].hook_thread = 1 /\ task[q].hook_thread = 1

-----------------------------------------------------------------------------
(* VersionsBuilder claims. *)

\* The number a numeral denotes.
RECURSIVE NumberOf(_)
NumberOf(s) == IF s = <<>> THEN 0
               ELSE 10 * NumberOf(SubSeq(s, 1, Len(s) - 1)) + (s[Len(s)] - Zero)

\* (major, minor, patch) of a version, as numbers.
VersionKey(version) ==
    LET parts == get_major_minor_patch_version(version) IN
        <<NumberOf(parts[1]), NumberOf(parts[2]), NumberOf(parts[3])>>

\* (major, minor, patch) of a is higher than that of b.
KeyHigher(a, b) ==
    \/ a[1] > b[1]
    \/ a[1] = b[1] /\ a[2] > b[2]
    \/ a[1] = b[1] /\ a[2] = b[2] /\ a[3] > b[3]

VersionHigher(a, b) == KeyHigher(VersionKey(a), VersionKey(b))

BuildSucceeded == last_build.called /\ last_build.error = ""
AddRaised == last_build.called /\ last_build.error \in {"exists", "superseded"}

\* C8: after any sequence of successful build calls, from any base document,
\* the versions list of the returned document (the builder's own dict) has at
\* most MAXIMUM_SPINNAKER_RELEASE_COUNT entries.
C8_AtMostThree ==
    BuildSucceeded =>
        Len(base_versions.versions) <= MAXIMUM_SPINNAKER_RELEASE_COUNT

\* A successful build whose list, after the new release was added, had more
\* than three entries, and which returned three.
C8_Witness ==
    /\ BuildSucceeded
    /\ Len(last_build.added) > MAXIMUM_SPINNAKER_RELEASE_COUNT
    /\ Len(base_versions.versions) = MAXIMUM_SPINNAKER_RELEASE_COUNT

\* C9: after every successful build the versions list is ordered by version
\* descending, (major, minor, patch) compared as numbers, and a release of the
\* previous entries and the new one is dropped only when three releases with
\* a higher version are kept.
C9_NumericDescendingMostRecent ==
    BuildSucceeded =>
        LET kept == base_versions.versions IN
            /\ \A i, j \in DOMAIN kept :
                  i < j => ~VersionHigher(kept[j].version, kept[i].version)
            /\ \A k \in DOMAIN last_build.added :
                  LET release == last_build.added[k] IN
                      (\A i \in DOMAIN kept : kept[i] # release) =>
                          Cardinality({i \in DOMAIN kept :
                              VersionHigher(kept[i].version, release.version)}) >= 3

\* C10: add_or_replace_release(new, existing), where at most one existing
\* entry has the (major, minor) of the new one: with such an entry the call
\* raises when the new patch number is equal or lower, and replaces the entry
\* at its index, keeping the length, when it is higher; with no such entry
\* the new entry is appended as the last element.
C10_AddOrReplace ==
    last_build.called =>
        LET existing == last_build.before.versions
            new_release == build_single_release_dict(
                               last_build.new_spinnaker_version, MinimumHalyard)
            new_key == VersionKey(new_release.version)
            same == {i \in DOMAIN existing :
                        LET key == VersionKey(existing[i].version) IN
                            key[1] = new_key[1] /\ key[2] = new_key[2]}
        IN  /\ same = {} =>
                  ~AddRaised /\ last_build.added = Append(existing, new_release)
            /\ \A i \in same :
                  Cardinality(same) = 1 =>
                      IF new_key[3] <= VersionKey(existing[i].version)[3]
                      THEN AddRaised
                      ELSE /\ ~AddRaised
                           /\ last_build.added = [existing EXCEPT ![i] = new_release]

\* The (major, minor) pair of a version, as numbers.
ReleaseLine(version) == <<VersionKey(version)[1], VersionKey(version)[2]>>

\* No two entries of the list are on the same release line.
OnePerLine(versions) ==
    \A i, j \in DOMAIN versions :
        ReleaseLine(versions[i].version) = ReleaseLine(versions[j].version) => i = j

\* C11: a successful build on a document with at most one entry per
\* (major, minor) pair leaves at most one entry per pair, so that any sequence
\* of successful builds from such a document keeps one entry per release line.
C11_OneEntryPerLine ==
    (BuildSucceeded /\ OnePerLine(last_build.before.versions)) =>
        OnePerLine(base_versions.versions)

\* A successful build that replaced the entry of its release line in a
\* document of two lines or more.
C11_Witness ==
    /\ BuildSucceeded
    /\ OnePerLine(last_build.before.versions)
    /\ Len(last_build.before.versions) >= 2
    /\ Len(last_build.added) = Len(last_build.before.versions)
    /\ OnePerLine(base_versions.versions)

\* C12: after every successful build latestSpinnaker is the version of the
\* first entry of the truncated list; when the release just added is not the
\* newest one kept, that is the version of the newest release line: no kept
\* entry has a higher version.
C12_LatestSpinnakerIsNewest ==
    BuildSucceeded =>
        LET kept == base_versions.versions IN
            /\ base_versions.latestSpinnaker = kept[1].version
            /\ (\E i \in DOMAIN kept :
                    VersionHigher(kept[i].version, last_build.new_spinnaker_version))
                => \A i \in DOMAIN kept :
                       ~VersionHigher(kept[i].version, base_versions.latestSpinnaker)

\* The keys of a document that build never writes.
OtherKeys(versions_dict) ==
    [k \in DOMAIN versions_dict \ {"versions", "latestSpinnaker", "latestHalyard"}
        |-> versions_dict[k]]

\* C13, as stated: when a latest_halyard_version is supplied, whatever it is,
\* latestHalyard of the result is that value; when none is supplied it is the
\* base document's; no other top-level key but versions and latestSpinnaker
\* changes.
C13_HalyardWhenSupplied ==
    /\ last_build.called => OtherKeys(base_versions) = OtherKeys(last_build.before)
    /\ BuildSucceeded =>
          IF last_build.latest_halyard_version # None
          THEN base_versions.latestHalyard = last_build.latest_halyard_version
          ELSE base_versions.latestHalyard = last_build.before.latestHalyard

\* C13, amended: latestHalyard becomes the supplied value when that value is
\* a non-empty str, and stays the base document's when none or the empty str
\* is supplied; illegalVersions and every key other than versions,
\* latestSpinnaker and latestHalyard are left as they were, whether the build
\* succeeds or raises.
C13_HalyardWhenSuppliedAndNotEmpty ==
    /\ last_build.called => OtherKeys(base_versions) = OtherKeys(last_build.before)
    /\ BuildSucceeded =>
          IF Truthy(last_build.latest_halyard_version)
          THEN base_versions.latestHalyard = last_build.latest_halyard_version
          ELSE base_versions.latestHalyard = last_build.before.latestHalyard

\* A successful build, given a latest_halyard_version other than the base's,
\* on a document that has illegalVersions.
C13_Witness ==
    /\ BuildSucceeded
    /\ Truthy(last_build.latest_halyard_version)
    /\ last_build.before.latestHalyard # last_build.latest_halyard_version
    /\ base_versions.latestHalyard = last_build.latest_halyard_version
    /\ last_build.before.illegalVersions.present
    /\ base_versions.illegalVersions = last_build.before.illegalVersions

\* The empty str supplied: latestHalyard stays the base document's.
C13_EmptyWitness ==
    /\ BuildSucceeded
    /\ last_build.latest_halyard_version = <<>>
    /\ base_versions.latestHalyard = last_build.before.latestHalyard

-----------------------------------------------------------------------------
(* BomBuilder claims. *)

BomBuilt == last_bom.called /\ ~last_bom.raised
BomResult == last_bom.result.document
AddedNames == {bom_order[i] : i \in DOMAIN bom_order}
BaseServicesOf(base) == Get(base, "services", EmptyDict)

\* The text of a build version before its first '-'.
RECURSIVE SemverPrefix(_)
SemverPrefix(version) ==
    IF version = <<>> \/ Head(version) = "-" THEN <<>>
    ELSE <<Head(version)>> \o SemverPrefix(Tail(version))

\* The base BOM has an entry for the service, with the commit of the added
\* entry.
SameCommitAsBase(name) ==
    /\ name \in DOMAIN BaseServicesOf(base_bom)
    /\ bom_objects[BaseServicesOf(base_bom)[name]].commit = bom_objects[bom_services[name]].commit

SamePrefixAsBase(name) ==
    SemverPrefix(bom_objects[BaseServicesOf(base_bom)[name]].version)
        = SemverPrefix(bom_objects[bom_services[name]].version)

\* build counted an UpdateBomEntry outcome with these labels for the service.
Counted(name, updated, reason) ==
    \E i \in DOMAIN last_bom.outcomes :
        /\ last_bom.outcomes[i].repostiory = name
        /\ last_bom.outcomes[i].updated = updated
        /\ last_bom.outcomes[i].reason = reason

\* C14: for each added service, if its commit is that of the base BOM's entry
\* and its version has the same semantic-version prefix, the result holds the
\* base BOM's entry and an outcome updated=false, reason 'same commit' is
\* counted; if the commit differs, the result is a changed BOM that holds the
\* new entry.
C14_KeepOrReplaceEntry ==
    BomBuilt =>
        \A name \in AddedNames :
            /\ (SameCommitAsBase(name) /\ SamePrefixAsBase(name)) =>
                  /\ BomResult.services[name] = BaseServicesOf(base_bom)[name]
                  /\ Counted(name, FALSE, "same commit")
            /\ ~SameCommitAsBase(name) =>
                  /\ last_bom.result.object = "new"
                  /\ BomResult.services[name] = bom_services[name]
                  /\ bom_objects[BomResult.services[name]].commit
                        = bom_objects[bom_services[name]].commit

\* A build that kept the base entry of one added service and replaced that of
\* another, whose commit differs.
C14_Witness ==
    /\ BomBuilt
    /\ \E kept, replaced \in AddedNames :
          /\ SameCommitAsBase(kept) /\ SamePrefixAsBase(kept)
          /\ BomResult.services[kept] = BaseServicesOf(base_bom)[kept]
          /\ replaced \in DOMAIN BaseServicesOf(base_bom)
          /\ ~SameCommitAsBase(replaced)
          /\ BomResult.services[replaced] = bom_services[replaced]

\* clouddriver, and nothing else, was added with this commit and version to a
\* base BOM that has clouddriver at commit C1, version 1.0.0-0.
OnlyClouddriverAdded(commit, version) ==
    /\ BomBuilt
    /\ "clouddriver" \in DOMAIN BaseServicesOf(base_bom)
    /\ bom_order = <<"clouddriver">>
    /\ bom_objects[bom_services["clouddriver"]].commit = commit
    /\ bom_objects[bom_services["clouddriver"]].version = version

ResultVersionOf(name) == bom_objects[BomResult.services[name]].version

\* C15, as stated: with clouddriver at C1, 1.0.0-0 in the base BOM, adding it
\* at C1 with version 1.0.0-1 marks it changed and puts 1.0.0-1 into the
\* result; adding it at C1, 1.0.0-0 to a BOM as build writes it returns the
\* base BOM.
C15_BuildNumberMarksChanged ==
    /\ OnlyClouddriverAdded(CommitOne, BuildVersion_1_0_0_1) =>
          /\ last_bom.result.object = "new"
          /\ Counted("clouddriver", TRUE, "different version")
          /\ ResultVersionOf("clouddriver") = BuildVersion_1_0_0_1
    /\ (OnlyClouddriverAdded(CommitOne, BuildVersion_1_0_0_0) /\ base_bom = FullBom) =>
          last_bom.result.object = "base"

\* C15, amended: at the same commit a version that differs only after the
\* '-' (1.0.0-1) leaves the service unchanged: the base entry with 1.0.0-0 is
\* kept, 'same commit' is counted, and a BOM as build writes it is returned
\* untouched; a version with another semantic-version prefix (1.0.1-0) marks
\* it changed and is put into the result; 1.0.0-0 leaves the BOM untouched.
C15_SemverPrefixMarksChanged ==
    /\ OnlyClouddriverAdded(CommitOne, BuildVersion_1_0_0_1) =>
          /\ Counted("clouddriver", FALSE, "same commit")
          /\ ResultVersionOf("clouddriver") = BuildVersion_1_0_0_0
          /\ base_bom = FullBom => last_bom.result.object = "base"
    /\ OnlyClouddriverAdded(CommitOne, BuildVersion_1_0_1_0) =>
          /\ last_bom.result.object = "new"
          /\ Counted("clouddriver", TRUE, "different version")
          /\ ResultVersionOf("clouddriver") = BuildVersion_1_0_1_0
    /\ OnlyClouddriverAdded(CommitOne, BuildVersion_1_0_0_0) =>
          /\ Counted("clouddriver", FALSE, "same commit")
          /\ base_bom = FullBom => last_bom.result.object = "base"

\* clouddriver added at C1 with 1.0.0-1 to a BOM as build writes it: the
\* base BOM is returned.
C15_Witness ==
    /\ OnlyClouddriverAdded(CommitOne, BuildVersion_1_0_0_1)
    /\ base_bom = FullBom
    /\ last_bom.result.object = "base"
    /\ ResultVersionOf("clouddriver") = BuildVersion_1_0_0_0

\* The added services whose entry build took as changed.
ChangedNames == {name \in AddedNames : \E reason \in {"different commit", "different version"} :
                                          Counted(name, TRUE, reason)}

\* The artifactSources and dependencies build computes equal the base BOM's.
SourcesAndDependenciesAsBase ==
    /\ "artifactSources" \in DOMAIN base_bom
    /\ base_bom.artifactSources
          = ArtifactSources(default_source_prefix(base_bom, bom_order, bom_repositories))
    /\ "dependencies" \in DOMAIN base_bom
    /\ bom_dependencies_file.present => bom_dependencies_file.content = base_bom.dependencies

\* The base services overridden by the changed entries.
OverriddenServices ==
    [name \in DOMAIN BaseServicesOf(base_bom) \cup ChangedNames |->
        IF name \in ChangedNames THEN bom_services[name]
        ELSE BaseServicesOf(base_bom)[name]]

\* C16: when build returns, it returns the base BOM object itself (same
\* version, timestamp and services) if no added service is changed and the
\* computed artifactSources and dependencies equal the base BOM's; otherwise
\* a new document whose version is the build number and whose services are
\* the base services overridden by the changed entries.
C16_BaseOrNewDocument ==
    BomBuilt =>
        IF ChangedNames = {} /\ SourcesAndDependenciesAsBase
        THEN /\ last_bom.result.object = "base"
             /\ BomResult = base_bom
             /\ \A o \in DOMAIN last_bom.objects_before :
                    o.owner = "base" => bom_objects[o] = last_bom.objects_before[o]
        ELSE /\ last_bom.result.object = "new"
             /\ BomResult.version = BuildNumber
             /\ BomResult.services = OverriddenServices

\* A new document in which one base entry is overridden and another is kept.
C16_Witness ==
    /\ BomBuilt
    /\ last_bom.result.object = "new"
    /\ BomResult.version = BuildNumber
    /\ \E kept, changed \in DOMAIN BaseServicesOf(base_bom) :
          /\ changed \in ChangedNames
          /\ kept \in AddedNames \ ChangedNames
          /\ BomResult.services[kept] = BaseServicesOf(base_bom)[kept]
          /\ BomResult.services[changed] = bom_services[changed]

\* The base BOM itself returned although a repository was added.
C16_BaseWitness ==
    /\ BomBuilt
    /\ AddedNames # {}
    /\ last_bom.result.object = "base"

\* C17, as stated: for every base BOM, build with no repository added, also
\* a second time in a row, returns the base BOM itself.
C17_NoDataReturnsBase ==
    (BomBuilt /\ bom_order = <<>>) =>
        last_bom.result.object = "base" /\ BomResult = base_bom

\* C17, amended: for a base BOM whose artifactSources and dependencies equal
\* those build computes, build with no repository added, also a second time
\* in a row, returns the base BOM itself; for any other base BOM it returns a
\* new document, every time.
C17_NoDataReturnsBaseIfSameSources ==
    (BomBuilt /\ bom_order = <<>>) =>
        IF SourcesAndDependenciesAsBase
        THEN last_bom.result.object = "base" /\ BomResult = base_bom
        ELSE last_bom.result.object = "new"

\* The second of two builds in a row with no repository added, both
\* returning the base BOM.
C17_Witness ==
    /\ BomBuilt
    /\ bom_order = <<>>
    /\ last_bom.previous = "base"
    /\ last_bom.result.object = "base"
    /\ BomResult = base_bom

\* Two service names of a services mapping refer to separate objects that
\* hold the same commit and version.
SeparateSameEntries(services, objects) ==
    /\ MonitoringThirdParty \in DOMAIN services
    /\ services[MonitoringThirdParty] # services[MonitoringDaemon]
    /\ objects[services[MonitoringThirdParty]].commit = objects[services[MonitoringDaemon]].commit
    /\ objects[services[MonitoringThirdParty]].version = objects[services[MonitoringDaemon]].version

\* C18: once monitoring-daemon is added, the builder holds, and build emits,
\* a monitoring-third-party entry with the same commit and version that is a
\* separate object; a gitPrefix that build adds is added to each of the two.
C18_ThirdPartySeparate ==
    /\ MonitoringDaemon \in DOMAIN bom_services =>
          /\ SeparateSameEntries(bom_services, bom_objects)
          /\ DOMAIN bom_objects[bom_services[MonitoringThirdParty]]
                = DOMAIN bom_objects[bom_services[MonitoringDaemon]]
    /\ (BomBuilt /\ MonitoringDaemon \in DOMAIN bom_services) =>
          /\ MonitoringDaemon \in DOMAIN BomResult.services
          /\ SeparateSameEntries(BomResult.services, bom_objects)
          /\ Get(bom_objects[BomResult.services[MonitoringThirdParty]], "gitPrefix", None)
                = Get(bom_objects[BomResult.services[MonitoringDaemon]], "gitPrefix", None)

\* A build that emitted the two added monitoring entries, each with the
\* gitPrefix build gave it.
C18_Witness ==
    /\ BomBuilt
    /\ MonitoringDaemon \in DOMAIN bom_services
    /\ BomResult.services[MonitoringDaemon] = bom_services[MonitoringDaemon]
    /\ BomResult.services[MonitoringThirdParty] = bom_services[MonitoringThirdParty]
    /\ SeparateSameEntries(BomResult.services, bom_objects)
    /\ "gitPrefix" \in DOMAIN bom_objects[bom_services[MonitoringDaemon]]
    /\ "gitPrefix" \in DOMAIN bom_objects[bom_services[MonitoringThirdParty]]

\* The repositories that were added, in the order they were first added:
\* monitoring-third-party is no repository of its own, its entry stands for
\* the repository of monitoring-daemon.
AddedRepositoryNames == SelectSeq(bom_order, LAMBDA name : name # MonitoringThirdParty)

OccurrencesOf(url_prefix) ==
    Cardinality({i \in DOMAIN AddedRepositoryNames :
        to_git_url_prefix(bom_repositories[AddedRepositoryNames[i]]) = url_prefix})

\* The prefix with the highest occurrence count among the added
\* repositories, a tie going to the prefix met first; null with none added.
MostCommonAmongAdded ==
    IF AddedRepositoryNames = <<>> THEN None
    ELSE LET prefix_at(i) == to_git_url_prefix(bom_repositories[AddedRepositoryNames[i]])
             best == CHOOSE i \in DOMAIN AddedRepositoryNames :
                        /\ \A j \in DOMAIN AddedRepositoryNames :
                              OccurrencesOf(prefix_at(j)) <= OccurrencesOf(prefix_at(i))
                        /\ \A j \in DOMAIN AddedRepositoryNames :
                              (j < i /\ prefix_at(j) # prefix_at(i)) =>
                                  OccurrencesOf(prefix_at(j)) < OccurrencesOf(prefix_at(i))
         IN  prefix_at(best)

BaseGitPrefix == Get(Get(base_bom, "artifactSources", EmptyDict), "gitPrefix", None)

\* C19: determine_most_common_prefix returns null when no repository has
\* been added, otherwise the prefix with the highest occurrence count among
\* the added repositories, a tie going to the prefix met first; build uses
\* it as artifactSources.gitPrefix only when the base BOM has no gitPrefix,
\* and the base BOM's gitPrefix otherwise.
C19_MostCommonPrefix ==
    /\ determine_most_common_prefix(bom_order, bom_repositories) = MostCommonAmongAdded
    /\ (BomBuilt /\ last_bom.result.object = "new") =>
          BomResult.artifactSources.gitPrefix
              = IF Truthy(BaseGitPrefix) THEN BaseGitPrefix ELSE MostCommonAmongAdded

\* The same, counting per entry of __repositories, so that the repository of
\* monitoring-daemon counts twice.
MostCommonPrefixPerEntry ==
    LET occurrences(p) == Cardinality({i \in DOMAIN bom_order :
                              to_git_url_prefix(bom_repositories[bom_order[i]]) = p})
        prefix_at(i) == to_git_url_prefix(bom_repositories[bom_order[i]])
        result == determine_most_common_prefix(bom_order, bom_repositories)
    IN  /\ bom_order = <<>> => result = None
        /\ bom_order # <<>> =>
              \E i \in DOMAIN bom_order :
                  /\ result = prefix_at(i)
                  /\ \A j \in DOMAIN bom_order : occurrences(prefix_at(j)) <= occurrences(result)
                  /\ \A j \in DOMAIN bom_order :
                        (j < i /\ prefix_at(j) # result) =>
                            occurrences(prefix_at(j)) < occurrences(result)
        /\ (BomBuilt /\ last_bom.result.object = "new") =>
              BomResult.artifactSources.gitPrefix
                  = IF Truthy(BaseGitPrefix) THEN BaseGitPrefix ELSE result

-----------------------------------------------------------------------------
(* C20 *)

Partitioned == lpc = "returned" /\ last_partition.called
PartitionResult == last_partition.result

\* How often the message at a position of the list occurs in the result.
RECURSIVE OccurrencesIn(_, _)
OccurrencesIn(position, entries) ==
    IF entries = <<>> THEN 0
    ELSE Len(SelectSeq(Head(entries).messages, LAMBDA i : i = position))
         + OccurrencesIn(position, Tail(entries))

\* The place of a section in the order of significance.
Significance(section) == CHOOSE i \in DOMAIN partition_types : partition_types[i] = section

FirstMatching(section, text) ==
    /\ SectionMatches(section, text)
    /\ \A other \in DOMAIN partition_types :
           other < Significance(section) => ~SectionMatches(partition_types[other], text)

ContainsBreakingChange(text) ==
    \E i \in DOMAIN text : \E j \in DOMAIN text[i] : text[i][j] = BreakingChange

\* C20: partition_commits puts every commit message into exactly one
\* category, the first of Breaking Changes, Features, Configuration, Fixes,
\* Other whose pattern matches the message; a message containing BREAKING
\* CHANGE is under Breaking Changes whatever its subject line is. The
\* categories come in that order, a category without messages is absent,
\* and no message is dropped or duplicated.
C20_PartitionByFirstMatch ==
    Partitioned =>
        /\ \A position \in DOMAIN normalized_messages :
               /\ OccurrencesIn(position, PartitionResult) = 1
               /\ \A e \in DOMAIN PartitionResult :
                      InList(position, PartitionResult[e].messages) =>
                          FirstMatching(PartitionResult[e].key,
                                        normalized_messages[position])
               /\ ContainsBreakingChange(normalized_messages[position]) =>
                      \E e \in DOMAIN PartitionResult :
                          /\ PartitionResult[e].key = "Breaking Changes"
                          /\ InList(position, PartitionResult[e].messages)
        /\ \A e \in DOMAIN PartitionResult :
               /\ PartitionResult[e].key \in
                      {"Breaking Changes", "Features", "Configuration", "Fixes", "Other"}
               /\ PartitionResult[e].messages # <<>>
               /\ \A i \in DOMAIN PartitionResult[e].messages :
                      PartitionResult[e].messages[i] \in DOMAIN normalized_messages
               /\ \A f \in DOMAIN PartitionResult :
                      e < f => Significance(PartitionResult[e].key)
                               < Significance(PartitionResult[f].key)

\* A breaking change whose subject line is a fix has been partitioned with a
\* feature after it: two categories are present, three are absent.
C20_Witness ==
    /\ Partitioned
    /\ Len(normalized_messages) = 2
    /\ ContainsBreakingChange(normalized_messages[2])
    /\ LineHasType(normalized_messages[2][1], {"bug", "fix"})
    /\ SectionMatches("Features", normalized_messages[1])
    /\ ~ContainsBreakingChange(normalized_messages[1])
    /\ Len(PartitionResult) = 2
    /\ PartitionResult[1] = [key |-> "Breaking Changes", messages |-> <<2>>]
    /\ PartitionResult[2] = [key |-> "Features", messages |-> <<1>>]

-----------------------------------------------------------------------------
(* C21 *)

SortedPartition == Partitioned /\ last_partition.sort

\* The thing of the message at a position of the list.
ThingAt(position) == thing_of(normalized_messages[position][1])

\* Alphabetical order of the things of the model, '' before every other.
Letters == <<"a", "b">>
LetterRank(thing) ==
    IF thing = <<>> THEN 0 ELSE CHOOSE r \in DOMAIN Letters : Letters[r] = thing[1]

\* The positions of the messages of a section, whatever their order.
PositionsOf(section) ==
    {position \in DOMAIN normalized_messages :
        FirstMatching(section, normalized_messages[position])}

\* C21: within a category the messages are ordered by their thing, '' for a
\* title without one, things in alphabetical order; messages with the same
\* thing keep the order of the list; the sorted list is a permutation of the
\* category's messages.
C21_SortedByThingStable ==
    SortedPartition =>
        \A e \in DOMAIN PartitionResult :
            LET sorted == PartitionResult[e].messages IN
                /\ {sorted[i] : i \in DOMAIN sorted} = PositionsOf(PartitionResult[e].key)
                /\ Len(sorted) = Cardinality(PositionsOf(PartitionResult[e].key))
                /\ \A i, j \in DOMAIN sorted :
                       i < j =>
                           \/ LetterRank(ThingAt(sorted[i])) < LetterRank(ThingAt(sorted[j]))
                           \/ /\ ThingAt(sorted[i]) = ThingAt(sorted[j])
                              /\ sorted[i] < sorted[j]

\* Two fixes, the one of thing b before the one of thing a, have been sorted:
\* the second comes first.
C21_Witness ==
    /\ SortedPartition
    /\ Len(normalized_messages) = 2
    /\ ThingAt(1) = <<"b">>
    /\ ThingAt(2) = <<"a">>
    /\ PartitionResult = <<[key |-> "Fixes", messages |-> <<2, 1>>]>>

\* Two fixes of the same thing have been sorted: they are in the order of
\* the list.
C21_StableWitness ==
    /\ SortedPartition
    /\ Len(normalized_messages) = 2
    /\ ThingAt(1) = <<"a">>
    /\ ThingAt(2) = <<"a">>
    /\ normalized_messages[1] # normalized_messages[2]
    /\ PartitionResult = <<[key |-> "Fixes", messages |-> <<1, 2>>]>>

-----------------------------------------------------------------------------
(* C22 *)

NextCalled == tpc = "returned" /\ last_tag_call.kind = "next"
TagCreated == tpc = "returned" /\ last_tag_call.kind = "tagged"

\* The components of a version, most significant first.
ComponentsOf(semver) == <<semver.major, semver.minor, semver.patch>>

\* What the claim says of next(index): the component at the index one more,
\* those before it as they were, those after it 0, the prefix as it was.
IsNextAt(next, semver, index) ==
    /\ next.series_name = semver.series_name
    /\ \A c \in 1..3 :
           ComponentsOf(next)[c] =
               IF c < index THEN ComponentsOf(semver)[c]
               ELSE IF c = index THEN ComponentsOf(semver)[c] + 1
               ELSE 0

Version_1_2_3 == [series_name |-> <<LetterV>>, major |-> 1, minor |-> 2, patch |-> 3]

\* C22: SemanticVersion.next(index) increments the component at index, keeps
\* the more significant ones and the prefix, and resets the less significant
\* ones to 0; tag_branch tags next(MINOR) of the newest tag on master and
\* next(PATCH) of it on any other branch.
C22_NextIncrementsAndResets ==
    /\ NextCalled =>
           IsNextAt(last_tag_call.next, last_tag_call.semver, last_tag_call.at_index)
    /\ TagCreated =>
           IsNextAt(semver_make(git_tags[Len(git_tags)].tag),
                    semver_make(last_tag_call.latest.tag),
                    IF git_branch = "master" THEN 2 ELSE 3)

\* next(MAJOR) of v1.2.3 has been taken and is v2.0.0.
C22_Witness ==
    /\ NextCalled
    /\ last_tag_call.semver = Version_1_2_3
    /\ last_tag_call.at_index = 1
    /\ last_tag_call.next = [Version_1_2_3 EXCEPT !.major = 2, !.minor = 0, !.patch = 0]

\* On master v1.9.9 was the newest tag and v1.10.0 has been created.
C22_TagWitness ==
    /\ TagCreated
    /\ git_branch = "master"
    /\ ComponentsOf(semver_make(last_tag_call.latest.tag)) = <<1, 9, 9>>
    /\ ComponentsOf(semver_make(git_tags[Len(git_tags)].tag)) = <<1, 10, 0>>

-----------------------------------------------------------------------------
(* C24 *)

TagBranchCalled ==
    tpc = "returned" /\ last_tag_call.kind \in {"skipped", "tagged", "raised"}

HeadWasNewestTag == last_tag_call.latest.commit = last_tag_call.head

\* C24: tag_branch creates and pushes a tag only when HEAD is not the commit
\* of the newest tag; when it is, the run creates and pushes nothing, and over
\* any number of runs at most one tag is pushed per HEAD commit.
C24_TagOnlyUntaggedHead ==
    /\ TagBranchCalled =>
           /\ HeadWasNewestTag =>
                  /\ git_tags = last_tag_call.tags_before
                  /\ pushed_tags = last_tag_call.pushed_before
           /\ git_tags # last_tag_call.tags_before => ~HeadWasNewestTag
           /\ pushed_tags # last_tag_call.pushed_before =>
                  /\ ~HeadWasNewestTag
                  /\ Len(pushed_tags) = Len(last_tag_call.pushed_before) + 1
                  /\ pushed_tags[Len(pushed_tags)].commit = last_tag_call.head
    /\ \A i, j \in DOMAIN pushed_tags :
           pushed_tags[i].commit = pushed_tags[j].commit => i = j

\* A run has tagged and pushed HEAD, and the run after it, with no commit in
\* between, has found HEAD tagged and has done nothing.
C24_Witness ==
    /\ TagBranchCalled
    /\ last_tag_call.kind = "skipped"
    /\ HeadWasNewestTag
    /\ Len(pushed_tags) = 1
    /\ pushed_tags[1].commit = head_commit
    /\ git_tags[Len(git_tags)] = pushed_tags[1]

-----------------------------------------------------------------------------
(* C23 *)

\* C23: the stack trace of an exception that goes from a repository hook
\* through _do_call_do_repository and __call__ is logged at most once: the
\* first layer logs it and sets the marker, a later layer finds the marker and
\* does not log it again, each layer raises the same exception again, and an
\* error of raise_and_log_error carries the marker when it is raised.
C23_TraceLoggedOnce ==
    /\ \A r \in DOMAIN exceptions :
           /\ exceptions[r].traces <= 1
           /\ exceptions[r].raised /\ raises[r] = "raise_and_log_error" =>
                  exceptions[r].loggedit /\ exceptions[r].traces = 0
           /\ exceptions[r].layers # <<>> =>
                  /\ exceptions[r].loggedit
                  /\ exceptions[r].layers[1] = "repository"
                  /\ raises[r] = "raise" => exceptions[r].traces = 1
    /\ command_raised # 0 =>
           /\ command_raised = pool_error
           /\ exceptions[command_raised].raised
           /\ exceptions[command_raised].layers = <<"repository", "command">>

\* A plain exception of a hook has gone through both layers and out of
\* __call__: its trace was logged once.
C23_Witness ==
    /\ epc = "raised"
    /\ raises[command_raised] = "raise"
    /\ exceptions[command_raised].layers = <<"repository", "command">>
    /\ exceptions[command_raised].traces = 1

-----------------------------------------------------------------------------
(* C25 *)

HasGauge(t) == got_metric[t].gauge # "none"
HasTimer(t) == got_metric[t].timer # "none"

\* C25: under any interleaving of callers of get_metric for one family type,
\* name and label set, the first calls for a name without a family included,
\* every caller gets the same instance, and it is one of the family the
\* registry holds: nothing is recorded on an unregistered instance.
C25_SameRegisteredInstance ==
    \A t \in DOMAIN got_metric :
        /\ HasGauge(t) => got_metric[t].gauge = "registered"
        /\ HasTimer(t) => got_metric[t].timer = "registered"
        /\ \A u \in DOMAIN got_metric :
               /\ HasGauge(t) /\ HasGauge(u) /\ call_labels[t] = call_labels[u] =>
                      got_metric[t].gauge = got_metric[u].gauge
               /\ HasTimer(t) /\ HasTimer(u) /\ OutcomeLabelsOf(t) = OutcomeLabelsOf(u) =>
                      got_metric[t].timer = got_metric[u].timer

-----------------------------------------------------------------------------
(* C30 *)

\* The calls with some labels that have started and not yet finished.
InProgress(labels) ==
    {t \in DOMAIN mpc :
        /\ call_labels[t] = labels
        /\ mpc[t] \in {"call", "observe", "observe_make", "untrack"}}

\* The value of the registered tracking gauge with some labels, 0 without one.
TrackingGauge(labels) ==
    IF /\ TrackingName \in DOMAIN registry_families
       /\ labels \in DOMAIN registry_families[TrackingName].instances
    THEN registry_families[TrackingName].instances[labels]
    ELSE 0

\* C30: the in-progress gauge of track_and_time_call equals the number of
\* tracked calls with its labels that have started and not yet finished: it
\* is never negative, and 0 once every call has finished. The gauge is taken
\* to be the registered one, and only callers that track with it are looked
\* at.
C30_GaugeCountsCallsInProgress ==
    /\ \A labels \in CallLabelSets : TrackingGauge(labels) >= 0
    /\ \A t \in DOMAIN mpc :
           mpc[t] \in {"call", "observe", "observe_make", "untrack"}
           /\ got_metric[t].gauge = "registered" =>
               TrackingGauge(call_labels[t]) = Cardinality(InProgress(call_labels[t]))
    /\ (\A t \in DOMAIN mpc : mpc[t] = "done") =>
           \A labels \in CallLabelSets : TrackingGauge(labels) = 0

-----------------------------------------------------------------------------
(* C26 *)

\* The value of queued that the last flush taking the metric saw, 0 if none did.
LastDrained(m) == IF drains[m] = <<>> THEN 0 ELSE drains[m][Len(drains[m])]

\* Each flush that took the metric found updates that no flush before it had.
EachUpdateDrainedOnce(m) ==
    \A i \in 1..Len(drains[m]) :
        (IF i = 1 THEN 0 ELSE drains[m][i - 1]) < drains[m][i]

\* C26: with monitoring enabled, every update queued by queue_update is handed
\* to exactly one flush. A metric is pending exactly when it has been queued
\* since the last flush that took it, whatever the updating threads, the pusher
\* thread and the shutdown flush are doing, so no update is lost and none is
\* taken twice; an update queued while a flush is processing the metric is
\* pending for the next flush.
C26_EveryUpdateInOneFlush ==
    monitoring_enabled =>
        \A m \in Metrics :
            /\ (m \in updated_metrics) <=> (queued[m] > LastDrained(m))
            /\ EachUpdateDrainedOnce(m)
            /\ LastDrained(m) <= queued[m]

\* The pusher thread is still processing a set with the metric, and the
\* shutdown flush has taken the update queued in the meantime.
C26_Witness ==
    /\ monitoring_enabled
    /\ \E m \in Metrics :
           /\ m \in holding.pusher
           /\ m \in holding.main
           /\ Len(drains[m]) = 2
           /\ updated_metrics = {}

-----------------------------------------------------------------------------
(* C27 *)

StopCalled == ppc \in {"signal", "signal_then_join", "join", "stopped", "processing", "done"}

StopReturned == ppc \in {"stopped", "processing", "done"}

LoopOver == loop.pc \in {"none", "ended"}

\* C27: after stop_pusher_thread is called the flush loop ends, if the pusher
\* thread is not held up for ever: a wait that the stop event ends is followed
\* by a ready function that returns false, so that no flush pass follows it;
\* and stop_pusher_thread returns, whether the thread has ended, is still
\* running, or was never started.
C27_LoopEndsAfterStop ==
    /\ []((loop.pc = "ready" /\ loop.woken_by_event) => ~delay_func_ready(pusher_thread))
    /\ (StopCalled ~> LoopOver)
    /\ (StopCalled ~> StopReturned)

\* stop_pusher_thread has returned and the loop has ended.
C27_Witness == StopReturned /\ loop.pc = "ended" /\ pusher_thread_event

\* stop_pusher_thread has returned while the pusher thread is still in a flush.
C27_TimeoutWitness == StopReturned /\ loop.pc = "processing"

\* stop_pusher_thread has returned and there never was a pusher thread.
C27_NeverStartedWitness == StopReturned /\ loop.pc = "none" /\ pusher_thread_event

-----------------------------------------------------------------------------
(* C28 *)

\* The repositories of the BOM services that the loop does not skip.
SelectedRepositories ==
    {publish_repository_name(publish_bom[i].name, publish_bom[i].spec_is_none, publish_only) :
        i \in 1..Len(publish_bom)} \ {NoName}

NewlyTagged == {r \in SelectedRepositories : version_tags[r] = "created"}

\* C28: push_branches_and_tags pushes nothing before the tagging pass is over
\* for every selected service, so an error in the tagging pass (a version tag
\* that is at another commit) leaves nothing pushed; the push pass pushes the
\* branch of every selected repository, and the tag of those only whose tag
\* the tagging pass made.
C28_TwoPasses ==
    /\ which \in {"tag", "raised_in_tag"} => origin = NothingPushed
    /\ origin.tags \subseteq NewlyTagged
    /\ origin.branches \subseteq SelectedRepositories
    /\ which = "returned" =>
           /\ origin.branches = SelectedRepositories
           /\ origin.tags = NewlyTagged
    /\ which = "raised_in_tag" =>
           version_tags[ServiceRepository] = "elsewhere"

\* The call has returned having pushed a branch with its new tag and a branch
\* whose tag was there before.
C28_Witness ==
    /\ which = "returned"
    /\ origin.tags # {}
    /\ origin.tags # origin.branches

\* The tagging pass has made a tag and then met a tag at another commit.
C28_RaisedWitness ==
    /\ which = "raised_in_tag"
    /\ names_to_push # {}
    /\ origin = NothingPushed

-----------------------------------------------------------------------------
(* C29 *)

BuildRaised == vpc = "returned" /\ last_build.called /\ last_build.error # ""

\* C29: when VersionsBuilder.build raises (the version is there already, a
\* newer patch supersedes it, or the resulting document violates the schema),
\* the builder's base document is as it was before the call: its versions
\* list, latestSpinnaker and latestHalyard are unchanged.
C29_RaiseLeavesBaseDocument ==
    BuildRaised =>
        /\ base_versions.versions = last_build.before.versions
        /\ base_versions.latestSpinnaker = last_build.before.latestSpinnaker
        /\ base_versions.latestHalyard = last_build.before.latestHalyard

=============================================================================
